---- MODULE Spec2Model ----
(***************************************************************************)
(* socnet: the social-graph write path (users, follows, posts, timeline)   *)
(* of internal/service, over a PostgreSQL store at its default isolation   *)
(* level (read committed: db.BeginTx(ctx, nil)).                           *)
(*                                                                         *)
(* Strings are sequences of one-character strings, so that TrimSpace and   *)
(* the regular expressions are computed, not assumed.                      *)
(***************************************************************************)
EXTENDS Integers, Sequences, FiniteSets, TLC

\* ------------------------------------------------------------------ bounds
\* request handlers (goroutines serving requests) that may be in flight at once
NProcs == 2
\* the users sequence stops here: CreateUser is not called once it is reached
MaxUserSeq == 4
\* the posts sequence stops here: CreatePost is not called once it is reached
MaxPostSeq == 2
\* no follow is requested while this many edges are committed
MaxFollows == 2
\* the follow edges committed before concurrent ToggleFollow calls start
MaxFollowsAtStart == 3
\* the follow edges committed before the first CreatePost call
MaxFollowsAtPost == 2
\* the comments sequence stops here: CreateComment is not called once it is reached
MaxCommentSeq == 2
\* the users, posts, comments and timeline entries of the largest store listed
MaxListed == 12
\* fan-out is not run again for a post once the timeline sequence reached this
MaxTimelineSeq == 5

Procs == 1..NProcs

\* ------------------------------------------------------------------ strings
Lower == {"a","b","c","d","e","f","g","h","i","j","k","l","m",
          "n","o","p","q","r","s","t","u","v","w","x","y","z"}
Upper == {"A","B","C","D","E","F","G","H","I","J","K","L","M",
          "N","O","P","Q","R","S","T","U","V","W","X","Y","Z"}
Digit == {"0","1","2","3","4","5","6","7","8","9"}
Space == {" "}

RECURSIVE TrimLeft(_)
TrimLeft(s) ==
    IF s # <<>> /\ Head(s) \in Space THEN TrimLeft(Tail(s)) ELSE s

RECURSIVE TrimRight(_)
TrimRight(s) ==
    IF s # <<>> /\ s[Len(s)] \in Space
    THEN TrimRight(SubSeq(s, 1, Len(s) - 1)) ELSE s

TrimSpace(s) == TrimRight(TrimLeft(s))

\* ^[a-zA-Z][a-zA-Z0-9_-]{0,17}$
reUsername(s) ==
    /\ Len(s) >= 1
    /\ Len(s) <= 18
    /\ s[1] \in Lower \cup Upper
    /\ \A i \in 2..Len(s) : s[i] \in Lower \cup Upper \cup Digit \cup {"_", "-"}

\* ^[^\s@]+@[^\s@]+\.[^\s@]+$
reEmail(s) ==
    /\ \A i \in 1..Len(s) : s[i] \notin Space
    /\ \E a \in 2..Len(s) :
          /\ s[a] = "@"
          /\ \A i \in 1..Len(s) : s[i] = "@" => i = a
          /\ \E d \in (a + 2)..(Len(s) - 1) : s[d] = "."

\* ------------------------------------------------------------------ errors
Nil                == "nil"
ErrUnauthenticated == "unauthenticated"
ErrUserNotFound    == "user not found"
ErrInvalidEmail    == "invalid email"
ErrInvalidUsername == "invalid username"
ErrEmailTaken      == "email is taken"
ErrUsernameTaken   == "username is taken"
ErrForbiddenFollow == "cannot follow yourself"
\* any fmt.Errorf("could not ...: %v", err) wrapping a storage error
ErrInternal        == "could not"

ErrInvalidContent  == "invalid content"
ErrInvalidSpoiler  == "invalid spoiler"
ErrPostNotFound    == "post not found"
ErrCommentNotFound == "comment not found"

\* ctx.Value(KeyAuthUserID) is absent
NoAuth == 0

\* ------------------------------------------------------------------ handlers
StatusOK                  == 200
StatusCreated             == 201
StatusUnauthorized        == 401
StatusNotFound            == 404
StatusUnprocessableEntity == 422
StatusInternalServerError == 500

\* what the handlers write to the http.ResponseWriter, in order: a status and
\* a body. http.Error(w, err.Error(), code) writes the error text
Error(err, code) == <<[status |-> code, body |-> err]>>

\* respond(w, v, code): the value as JSON
respond(code) == <<[status |-> code, body |-> "json"]>>

\* respondError(w, err): the error is logged and a generic 500 is written
respondError(err) ==
    <<[status |-> StatusInternalServerError, body |-> "internal server error"]>>

\* createPost, from the return of h.CreatePost on: the branch for
\* ErrUnauthenticated writes and does not return
createPost(err) ==
    (IF err = ErrUnauthenticated THEN Error(err, StatusUnauthorized) ELSE <<>>)
    \o (IF err = ErrInvalidContent \/ err = ErrInvalidSpoiler
        THEN Error(err, StatusUnprocessableEntity)
        ELSE IF err # Nil THEN respondError(err)
        ELSE respond(StatusCreated))

\* createComment, from the return of h.CreateComment on: the branch for
\* ErrUnauthenticated writes and does not return
createComment(err) ==
    (IF err = ErrUnauthenticated THEN Error(err, StatusUnauthorized) ELSE <<>>)
    \o (IF err = ErrInvalidContent
        THEN Error(err, StatusUnprocessableEntity)
        ELSE IF err = ErrPostNotFound THEN Error(err, StatusNotFound)
        ELSE IF err # Nil THEN respondError(err)
        ELSE respond(StatusCreated))

\* toggleCommentLike, from the return of h.ToggleCommentLike on
toggleCommentLike(err) ==
    IF err = ErrUnauthenticated THEN Error(err, StatusUnauthorized)
    ELSE IF err = ErrCommentNotFound THEN Error(err, StatusNotFound)
    ELSE IF err # Nil THEN respondError(err)
    ELSE respond(StatusOK)

\* the writes of the handler of operation op when the service returns err;
\* none for the operations whose handler is not looked at
Writes(op, err) ==
    IF op = "CreatePost" THEN createPost(err)
    ELSE IF op = "CreateComment" THEN createComment(err)
    ELSE IF op = "ToggleCommentLike" THEN toggleCommentLike(err)
    ELSE <<>>

\* ------------------------------------------------------------------ seed rows
mladen   == <<"m","l","a","d","e","n">>
milutin  == <<"m","i","l","u","t","i","n">>
momcilo  == <<"m","o","m","c","i","l","o">>
exampleOrg == <<"@","e","x","a","m","p","l","e",".","o","r","g">>

\* avatar VARCHAR: NULL until the user uploads one
NullString == <<"NULL">>

SeedUsers ==
    (1 :> [email |-> mladen \o exampleOrg, username |-> mladen,
           followers_count |-> 0, followees_count |-> 0,
           avatar |-> NullString]) @@
    (2 :> [email |-> milutin \o exampleOrg, username |-> milutin,
           followers_count |-> 0, followees_count |-> 0,
           avatar |-> NullString]) @@
    (3 :> [email |-> momcilo \o exampleOrg, username |-> momcilo,
           followers_count |-> 0, followees_count |-> 0,
           avatar |-> NullString])

SeedPosts ==
    (1 :> [user_id |-> 1,
           content |-> <<"s","a","m","p","l","e"," ","p","o","s","t">>,
           spoiler_of |-> <<"nil">>, nsfw |-> FALSE, likes_count |-> 0,
           comments_count |-> 1, created_at |-> 0])

SeedTimeline == {[id |-> 1, user_id |-> 1, post_id |-> 1]}

\* INSERT INTO socnet.comments (id, user_id, post_id, content) VALUES ...: the
\* one comment that the seeded comments_count of post 1 counts
SeedComments ==
    (1 :> [user_id |-> 1, post_id |-> 1,
           content |-> <<"s","a","m","p","l","e">>, likes_count |-> 0,
           created_at |-> 0])

\* ------------------------------------------------------------------ inputs
ana == <<"a","n","a">>
EmailInputs ==
    { ana \o exampleOrg,                 \* well formed, free
      <<" ">> \o ana \o exampleOrg,      \* well formed once trimmed
      mladen \o exampleOrg,              \* taken
      ana }                              \* malformed
UsernameInputs ==
    { mladen, milutin, momcilo, ana,
      <<" ">> \o milutin \o <<" ">>,     \* valid once trimmed
      <<"4">> \o ana }                   \* malformed

VARIABLES
    users,        \* table users: id -> row (committed)
    follows,      \* table follows: set of <<follower_id, followee_id>> (committed)
    posts,        \* table posts: id -> row (committed)
    timeline,     \* table timeline: set of rows [id, user_id, post_id] (committed)
    userSeq,      \* sequence behind users.id
    postSeq,      \* sequence behind posts.id
    timelineSeq,  \* sequence behind timeline.id
    pc,           \* per request handler: the statement it is about to run
    loc,          \* per request handler: its local variables
    tx,           \* per request handler: the uncommitted writes of its transaction
    resp,         \* per request handler: what its last call returned
    tasks,        \* fan-out goroutines started and not yet finished
    pre,          \* per request handler: the committed graph when its call began
    last,         \* the call that returned last, when it was a successful toggle
    steady,       \* per post: its followers at the post commit (at), and those of
                  \* them whose edge has stayed until fan-out ran (still)
    post_likes,   \* table post_likes: set of <<user_id, post_id>> (committed)
    comments,     \* table comments: id -> row (committed)
    comment_likes,\* table comment_likes: set of <<user_id, comment_id>> (committed)
    commentSeq,   \* sequence behind comments.id
    listed        \* what the last listing call returned

socvars == <<post_likes, comments, comment_likes, commentSeq>>
dbvars  == <<users, follows, posts, timeline, userSeq, postSeq, timelineSeq,
             socvars>>
vars    == <<users, follows, posts, timeline, userSeq, postSeq, timelineSeq,
             pc, loc, tx, resp, tasks, pre, last, steady, socvars, listed>>

\* ------------------------------------------------------------------ records
EmptyFn == [x \in {} |-> 0]

NoTx == [ins |-> {}, del |-> {}, urows |-> EmptyFn, posts |-> EmptyFn,
         timeline |-> {},
         likes_ins |-> {}, likes_del |-> {}, prows |-> EmptyFn,
         comments |-> EmptyFn, clikes_ins |-> {}, clikes_del |-> {},
         crows |-> EmptyFn]

NoLoc == [op |-> "none", uid |-> NoAuth, email |-> <<>>, username |-> <<>>,
          followeeID |-> 0, Following |-> FALSE, FollowersCount |-> 0,
          content |-> <<>>, spoilerOf |-> <<>>, nsfw |-> FALSE,
          postID |-> 0, tiID |-> 0, tiUserID |-> 0, mine |-> FALSE,
          commentID |-> 0, Liked |-> FALSE, LikesCount |-> 0]

NoResp == [op |-> "none", uid |-> NoAuth, username |-> <<>>, followeeID |-> 0,
           err |-> Nil, Following |-> FALSE, FollowersCount |-> 0,
           postID |-> 0, tiID |-> 0, tiUserID |-> 0, mine |-> FALSE,
           commentID |-> 0, Liked |-> FALSE, LikesCount |-> 0, http |-> <<>>]

\* no listing call has returned yet
NoListed == [op |-> "none", uid |-> NoAuth, name |-> <<>>, target |-> 0,
             size |-> 0, before |-> 0, matched |-> 0, rows |-> <<>>,
             items |-> <<>>, seen |-> <<>>, base |-> {}, paging |-> FALSE,
             err |-> Nil]

NoPre == [follows |-> {}, counts |-> EmptyFn]

NoLast == [uid |-> 0, followeeID |-> 0, streak |-> 0, edgeBefore |-> FALSE,
           followeesBefore |-> 0, followersBefore |-> 0]

\* what a call that stops at the current statement returns
Resp(p, err) ==
    [op |-> loc[p].op, uid |-> loc[p].uid,
     username |-> IF loc[p].op = "CreateUser" THEN loc[p].username ELSE <<>>,
     followeeID |-> loc[p].followeeID, err |-> err,
     Following |-> loc[p].Following, FollowersCount |-> loc[p].FollowersCount,
     postID |-> loc[p].postID, tiID |-> loc[p].tiID,
     tiUserID |-> loc[p].tiUserID, mine |-> loc[p].mine,
     commentID |-> loc[p].commentID, Liked |-> loc[p].Liked,
     LikesCount |-> loc[p].LikesCount, http |-> Writes(loc[p].op, err)]

\* followers_count and followees_count of every user row
Counts(us) ==
    [u \in DOMAIN us |-> <<us[u].followers_count, us[u].followees_count>>]

\* the call returns r; the deferred tx.Rollback() drops what was not committed
Return(p, r, l) ==
    /\ pc'   = [pc   EXCEPT ![p] = "idle"]
    /\ resp' = [resp EXCEPT ![p] = r]
    /\ loc'  = [loc  EXCEPT ![p] = NoLoc]
    /\ tx'   = [tx   EXCEPT ![p] = NoTx]
    /\ pre'  = [pre  EXCEPT ![p] = NoPre]
    /\ last' = l

\* the call fails with err before its transaction committed anything
Abort(p, err) ==
    /\ Return(p, Resp(p, err), NoLast)
    /\ UNCHANGED <<dbvars, tasks, steady, listed>>

\* no like yet, the seeded comment, no listing asked for
SocInit ==
    /\ post_likes = {}
    /\ comments = SeedComments
    /\ comment_likes = {}
    /\ commentSeq = 1
    /\ listed = NoListed

Init ==
    /\ SocInit
    /\ users = SeedUsers
    /\ follows = {}
    /\ posts = SeedPosts
    /\ timeline = SeedTimeline
    /\ userSeq = 3
    /\ postSeq = 1
    /\ timelineSeq = 1
    /\ pc = [p \in Procs |-> "idle"]
    /\ loc = [p \in Procs |-> NoLoc]
    /\ tx = [p \in Procs |-> NoTx]
    /\ resp = [p \in Procs |-> NoResp]
    /\ tasks = {}
    /\ pre = [p \in Procs |-> NoPre]
    /\ last = NoLast
    /\ steady = EmptyFn

\* ------------------------------------------------------------------ row locks
\* a follows row is locked by the transaction that inserted or deleted it
EdgeLockedByOther(p, e) ==
    \E q \in Procs \ {p} : e \in tx[q].ins \cup tx[q].del

\* an UPDATE that does not wait for the transaction holding the row
RowLockedByOtherNever(p, u) == FALSE

\* a users row is locked by the transaction that updated it
RowLockedByOther(p, u) ==
    \E q \in Procs \ {p} : u \in DOMAIN tx[q].urows

\* the users row u as transaction p sees it
RowOf(p, u) == IF u \in DOMAIN tx[p].urows THEN tx[p].urows[u] ELSE users[u]

\* ------------------------------------------------------------------ calls
\* a call that returns err before it touches the store
Reject(p, op, uid, username, err) ==
    /\ resp' = [resp EXCEPT ![p] =
                  [NoResp EXCEPT !.op = op, !.uid = uid,
                                 !.username = username, !.err = err,
                                 !.http = Writes(op, err)]]
    /\ last' = NoLast
    /\ UNCHANGED <<dbvars, pc, loc, tx, tasks, pre, steady, listed>>

\* a call that goes on to its first statement at label
Enter(p, l, label) ==
    /\ pc'  = [pc  EXCEPT ![p] = label]
    /\ loc' = [loc EXCEPT ![p] = l]
    /\ pre' = [pre EXCEPT ![p] =
                 IF l.op = "ToggleFollow"
                 THEN [follows |-> follows, counts |-> Counts(users)]
                 ELSE NoPre]
    /\ UNCHANGED <<dbvars, tx, resp, tasks, last, steady, listed>>

\* the test of the caller identity left out
UnauthenticatedNever(uid) == FALSE

\* uid, ok := ctx.Value(KeyAuthUserID).(int64); if !ok
Unauthenticated(uid) == uid = NoAuth

\* ------------------------------------------------------------------ CreateUser
\* CreateUser(ctx, email, username) up to its INSERT
CreateUserCall(p, em, un) ==
    /\ pc[p] = "idle"
    /\ userSeq < MaxUserSeq
    /\ LET email    == TrimSpace(em)
           username == TrimSpace(un)
       IN  IF ~reEmail(email)
           THEN Reject(p, "CreateUser", NoAuth, username, ErrInvalidEmail)
           ELSE IF ~reUsername(username)
           THEN Reject(p, "CreateUser", NoAuth, username, ErrInvalidUsername)
           ELSE Enter(p, [NoLoc EXCEPT !.op = "CreateUser", !.email = email,
                                       !.username = username], "cu_insert")

CallCreateUser(p) ==
    \E em \in EmailInputs, un \in UsernameInputs : CreateUserCall(p, em, un)

\* the unique constraints of users
NoConstraint       == "none"
users_email_key    == "users_email_key"
users_username_key == "users_username_key"

\* users without its unique indexes
UserInsertUnchecked(email, username) == NoConstraint

\* email VARCHAR NOT NULL UNIQUE, username VARCHAR NOT NULL UNIQUE: the
\* constraint that the insert of (email, username) violates, the one on email
\* being checked first
UserInsert(email, username) ==
    IF \E u \in DOMAIN users : users[u].email = email
    THEN users_email_key
    ELSE IF \E u \in DOMAIN users : users[u].username = username
    THEN users_username_key
    ELSE NoConstraint

\* a row of users whose counters do not start at 0
NewUserRowOne(email, username) ==
    [email |-> email, username |-> username,
     followers_count |-> 1, followees_count |-> 1, avatar |-> NullString]

\* INSERT INTO users (email, username): the counters take their DEFAULT 0
NewUserRow(email, username) ==
    [email |-> email, username |-> username,
     followers_count |-> 0, followees_count |-> 0, avatar |-> NullString]

\* INSERT INTO users (email, username): the id default draws from the
\* sequence before the unique indexes are checked
CreateUserInsert(p) ==
    /\ pc[p] = "cu_insert"
    /\ userSeq' = userSeq + 1
    /\ LET violated == UserInsert(loc[p].email, loc[p].username)
       IN  IF violated = users_email_key
           THEN /\ Return(p, Resp(p, ErrEmailTaken), NoLast)
                /\ users' = users
           ELSE IF violated = users_username_key
           THEN /\ Return(p, Resp(p, ErrUsernameTaken), NoLast)
                /\ users' = users
           ELSE /\ Return(p, Resp(p, Nil), NoLast)
                /\ users' = users @@ ((userSeq + 1) :>
                      NewUserRow(loc[p].email, loc[p].username))
    /\ UNCHANGED <<follows, posts, timeline, postSeq, timelineSeq, tasks, steady, socvars, listed>>

\* ------------------------------------------------------------------ ToggleFollow
\* the id of the user the (trimmed) username names, 0 when there is none
UserIDByUsername(username) ==
    IF \E u \in DOMAIN users : users[u].username = username
    THEN CHOOSE u \in DOMAIN users : users[u].username = username
    ELSE 0

CallToggleFollowBy(p, uids) ==
    /\ pc[p] = "idle"
    /\ \E uid \in uids, un \in UsernameInputs :
         LET username == TrimSpace(un) IN
         /\ \/ Cardinality(follows) < MaxFollows
            \/ <<uid, UserIDByUsername(username)>> \in follows
         /\ IF Unauthenticated(uid)
            THEN Reject(p, "ToggleFollow", uid, <<>>, ErrUnauthenticated)
            ELSE IF ~reUsername(username)
            THEN Reject(p, "ToggleFollow", uid, <<>>, ErrInvalidUsername)
            ELSE Enter(p, [NoLoc EXCEPT !.op = "ToggleFollow", !.uid = uid,
                                        !.username = username], "tf_lookup")

CallToggleFollow(p) == CallToggleFollowBy(p, DOMAIN users \cup {NoAuth})

\* the self-follow test left out
ForbiddenFollowNever(followerID, followeeID) == FALSE

\* if followeeID == followerID { return out, ErrForbiddenFollow }
ForbiddenFollow(followerID, followeeID) == followeeID = followerID

\* BeginTx; SELECT id FROM users WHERE username = $1; the self-follow test

ToggleFollowLookup(p) ==
    /\ pc[p] = "tf_lookup"
    /\ LET followeeID == UserIDByUsername(loc[p].username) IN
       IF followeeID = 0
       THEN Abort(p, ErrUserNotFound)
       ELSE IF ForbiddenFollow(loc[p].uid, followeeID)
       THEN /\ Return(p, [Resp(p, ErrForbiddenFollow) EXCEPT
                               !.followeeID = followeeID], NoLast)
            /\ UNCHANGED <<dbvars, tasks, steady, listed>>
       ELSE /\ pc'  = [pc  EXCEPT ![p] = "tf_exists"]
            /\ loc' = [loc EXCEPT ![p].followeeID = followeeID]
            /\ UNCHANGED <<dbvars, tx, resp, tasks, pre, last, steady, listed>>

\* SELECT EXISTS (SELECT 1 FROM follows WHERE follower_id = $1 AND followee_id = $2):
\* reads what is committed when the statement runs, and locks nothing
ToggleFollowExists(p) ==
    /\ pc[p] = "tf_exists"
    /\ pc'  = [pc  EXCEPT ![p] = "tf_edge"]
    /\ loc' = [loc EXCEPT ![p].Following =
                  <<loc[p].uid, loc[p].followeeID>> \in follows]
    /\ UNCHANGED <<dbvars, tx, resp, tasks, pre, last, steady, listed>>

\* the edge statement sent to s.db instead of tx: it commits on its own
ToggleFollowEdgeAutocommit(p) ==
    /\ pc[p] = "tf_edge"
    /\ LET e == <<loc[p].uid, loc[p].followeeID>> IN
       /\ ~EdgeLockedByOther(p, e)
       /\ IF ~loc[p].Following /\ e \in follows
          THEN Abort(p, ErrInternal)
          ELSE /\ follows' = IF loc[p].Following THEN follows \ {e}
                             ELSE follows \cup {e}
               /\ pc' = [pc EXCEPT ![p] = "tf_followees"]
               /\ UNCHANGED <<users, posts, timeline, userSeq, postSeq,
                              timelineSeq, loc, tx, resp, tasks, pre, last,
                              steady, socvars, listed>>

\* DELETE FROM follows ... / INSERT INTO follows ...: waits for a transaction
\* that holds the row; a DELETE that then finds no row deletes nothing and
\* reports no error, an INSERT that finds the row fails on the primary key
ToggleFollowEdge(p) ==
    /\ pc[p] = "tf_edge"
    /\ LET e == <<loc[p].uid, loc[p].followeeID>> IN
       /\ ~EdgeLockedByOther(p, e)
       /\ IF loc[p].Following
          THEN /\ tx' = [tx EXCEPT ![p].del =
                           IF e \in follows THEN {e} ELSE {}]
               /\ pc' = [pc EXCEPT ![p] = "tf_followees"]
               /\ UNCHANGED <<dbvars, loc, resp, tasks, pre, last, steady, listed>>
          ELSE IF e \in follows
          THEN Abort(p, ErrInternal)
          ELSE /\ tx' = [tx EXCEPT ![p].ins = {e}]
               /\ pc' = [pc EXCEPT ![p] = "tf_followees"]
               /\ UNCHANGED <<dbvars, loc, resp, tasks, pre, last, steady, listed>>

\* +1 after an insert, -1 after a delete
Delta(p) == IF loc[p].Following THEN -1 ELSE 1

\* the followees_count update keyed by the followee
FolloweesKeyWrong(p) == loc[p].followeeID

\* ... SET followees_count = ... WHERE id = $1, with $1 = followerID
FolloweesKey(p) == loc[p].uid

\* UPDATE users SET followees_count = followees_count +/- 1 WHERE id = follower:
\* waits for the row lock, then CHECK (followees_count >= 0)
ToggleFollowFollowees(p) ==
    /\ pc[p] = "tf_followees"
    /\ LET u   == FolloweesKey(p)
           row == RowOf(p, u)
           n   == row.followees_count + Delta(p)
       IN  /\ ~RowLockedByOther(p, u)
           /\ IF n < 0
              THEN Abort(p, ErrInternal)
              ELSE /\ tx' = [tx EXCEPT ![p].urows =
                               (u :> [row EXCEPT !.followees_count = n]) @@ @]
                   /\ pc' = [pc EXCEPT ![p] = "tf_followers"]
                   /\ UNCHANGED <<dbvars, loc, resp, tasks, pre, last, steady, listed>>

\* UPDATE users SET followers_count = followers_count +/- 1 WHERE id = followee
\* RETURNING followers_count
ToggleFollowFollowers(p) ==
    /\ pc[p] = "tf_followers"
    /\ LET u   == loc[p].followeeID
           row == RowOf(p, u)
           n   == row.followers_count + Delta(p)
       IN  /\ ~RowLockedByOther(p, u)
           /\ IF n < 0
              THEN Abort(p, ErrInternal)
              ELSE /\ tx' = [tx EXCEPT ![p].urows =
                               (u :> [row EXCEPT !.followers_count = n]) @@ @]
                   /\ loc' = [loc EXCEPT ![p].FollowersCount = n]
                   /\ pc' = [pc EXCEPT ![p] = "tf_commit"]
                   /\ UNCHANGED <<dbvars, resp, tasks, pre, last, steady, listed>>

\* the users table once the rows written by transaction p are committed
CommitUsers(p) ==
    [u \in DOMAIN users |->
        IF u \in DOMAIN tx[p].urows
        THEN [users[u] EXCEPT
                 !.followers_count = tx[p].urows[u].followers_count,
                 !.followees_count = tx[p].urows[u].followees_count]
        ELSE users[u]]

\* the follows table once the rows written by transaction p are committed
CommitFollows(p) == (follows \ tx[p].del) \cup tx[p].ins

\* posts awaiting fan-out lose the follower whose edge a commit removes
SteadyAfter(p) ==
    [q \in DOMAIN steady |->
        IF \E t \in tasks : t.post = q /\ t.pc # "range"
        THEN [steady[q] EXCEPT !.still =
                @ \ {e[1] : e \in {d \in tx[p].del : d[2] = posts[q].user_id}}]
        ELSE steady[q]]

\* column i of user u's counters when call p began (0: no such row then)
CountBefore(p, u, i) ==
    IF u \in DOMAIN pre[p].counts THEN pre[p].counts[u][i] ELSE 0

\* the flip of out.Following left out
ToggledKept(following) == following

\* out.Following = !out.Following
Toggled(following) == ~following

\* tx.Commit(); out.Following = !out.Following; return out, nil
ToggleFollowCommit(p) ==
    /\ pc[p] = "tf_commit"
    /\ follows' = CommitFollows(p)
    /\ users' = CommitUsers(p)
    /\ steady' = SteadyAfter(p)
    /\ Return(p, [Resp(p, Nil) EXCEPT !.Following = Toggled(loc[p].Following)],
              [uid |-> loc[p].uid, followeeID |-> loc[p].followeeID,
               streak |-> IF last.uid = loc[p].uid
                             /\ last.followeeID = loc[p].followeeID
                          THEN 2 ELSE 1,
               edgeBefore |-> <<loc[p].uid, loc[p].followeeID>> \in pre[p].follows,
               followeesBefore |-> CountBefore(p, loc[p].uid, 2),
               followersBefore |-> CountBefore(p, loc[p].followeeID, 1)])
    /\ UNCHANGED <<posts, timeline, userSeq, postSeq, timelineSeq, tasks, socvars, listed>>

\* ------------------------------------------------------------------ deadlock
\* the transactions that hold the row lock the next statement of p needs
WaitsFor(p) ==
    IF pc[p] = "tf_edge"
    THEN {q \in Procs \ {p} :
            <<loc[p].uid, loc[p].followeeID>> \in tx[q].ins \cup tx[q].del}
    ELSE IF pc[p] = "tf_followees"
    THEN {q \in Procs \ {p} : loc[p].uid \in DOMAIN tx[q].urows}
    ELSE IF pc[p] = "tf_followers"
    THEN {q \in Procs \ {p} : loc[p].followeeID \in DOMAIN tx[q].urows}
    ELSE {}

RECURSIVE WaitChain(_, _)
WaitChain(S, n) ==
    IF n = 0 THEN S
    ELSE WaitChain(S \cup UNION {WaitsFor(q) : q \in S}, n - 1)

Deadlocked(p) == p \in WaitChain(WaitsFor(p), NProcs)

\* the store's deadlock detector fails the waiting statement of a transaction
\* in a wait cycle; the call returns the wrapped error and rolls back
DeadlockAbort(p) ==
    /\ Deadlocked(p)
    /\ Abort(p, ErrInternal)

\* ------------------------------------------------------------------ CreatePost
MaxContentLen == 480
MaxSpoilerLen == 64
\* spoilerOf == nil
NoSpoiler == <<"nil">>

ContentInputs == { <<"h","i">>, <<" ","h","i"," ">>, <<" ">> }
SpoilerInputs == { NoSpoiler, <<" ">> }
NsfwInputs    == { FALSE }

\* n runes ch
Rep(ch, n) == [i \in 1..n |-> ch]

\* contents and spoiler labels around the limits of the length tests
LongContentInputs ==
    { <<>>, <<" ", " ">>, Rep("a", 1),
      Rep("a", MaxSpoilerLen), Rep("a", MaxSpoilerLen + 1),
      Rep("a", MaxContentLen - 1),
      Rep("a", MaxContentLen), <<" ">> \o Rep("b", MaxContentLen) \o <<" ">>,
      Rep("a", MaxContentLen + 1) }
LongSpoilerInputs ==
    { NoSpoiler, <<" ">>, Rep("s", 1), <<" ">> \o Rep("s", MaxSpoilerLen),
      Rep("s", MaxSpoilerLen + 1) }

\* CreatePost calls that have yet to draw their post id
DrawingPost == {q \in Procs : pc[q] = "cp_post"}

\* the length test one short: content of MaxContentLen runes refused
InvalidPostContentFrom480(content) ==
    content = <<>> \/ Len(content) >= MaxContentLen

\* content == "" || len([]rune(content)) > 480
InvalidPostContent(content) == content = <<>> \/ Len(content) > MaxContentLen

\* *spoilerOf == "" || len([]rune(content)) > 64
InvalidSpoiler(content, spoilerOf) ==
    spoilerOf = <<>> \/ Len(content) > MaxSpoilerLen

\* CreatePost(ctx, content, spoilerOf, nsfw) up to its first statement
CreatePostCall(p, uid, c, sp, nsfw) ==
    /\ pc[p] = "idle"
    /\ postSeq + Cardinality(DrawingPost) < MaxPostSeq
    /\ LET content   == TrimSpace(c)
           spoilerOf == IF sp = NoSpoiler THEN sp ELSE TrimSpace(sp)
       IN  IF Unauthenticated(uid)
           THEN Reject(p, "CreatePost", uid, <<>>, ErrUnauthenticated)
           ELSE IF InvalidPostContent(content)
           THEN Reject(p, "CreatePost", uid, <<>>, ErrInvalidContent)
           ELSE IF sp # NoSpoiler /\ InvalidSpoiler(content, spoilerOf)
           THEN Reject(p, "CreatePost", uid, <<>>, ErrInvalidSpoiler)
           ELSE Enter(p, [NoLoc EXCEPT !.op = "CreatePost", !.uid = uid,
                                       !.content = content,
                                       !.spoilerOf = spoilerOf,
                                       !.nsfw = nsfw], "cp_post")

CallCreatePostBy(p, uids, contents, spoilers) ==
    \E uid \in uids, c \in contents, sp \in spoilers, nsfw \in NsfwInputs :
       CreatePostCall(p, uid, c, sp, nsfw)

CallCreatePostFrom(p, contents, spoilers) ==
    CallCreatePostBy(p, DOMAIN users \cup {NoAuth}, contents, spoilers)

CallCreatePost(p) == CallCreatePostFrom(p, ContentInputs, SpoilerInputs)

\* the post insert sent to s.db instead of tx: it commits on its own
CreatePostInsertPostAutocommit(p) ==
    /\ pc[p] = "cp_post"
    /\ postSeq' = postSeq + 1
    /\ posts' = posts @@ ((postSeq + 1) :>
                 [user_id |-> loc[p].uid, content |-> loc[p].content,
                  spoiler_of |-> loc[p].spoilerOf, nsfw |-> loc[p].nsfw,
                  likes_count |-> 0, comments_count |-> 0,
                  created_at |-> postSeq + 1])
    /\ loc' = [loc EXCEPT ![p].postID = postSeq + 1, ![p].mine = TRUE]
    /\ pc' = [pc EXCEPT ![p] = "cp_timeline"]
    /\ UNCHANGED <<users, follows, timeline, userSeq, timelineSeq,
                   tx, resp, tasks, pre, last, steady, socvars, listed>>

\* BeginTx; INSERT INTO posts (user_id, content, spoiler_of, nsfw) RETURNING id
CreatePostInsertPost(p) ==
    /\ pc[p] = "cp_post"
    /\ postSeq' = postSeq + 1
    /\ tx' = [tx EXCEPT ![p].posts = (postSeq + 1) :>
                 [user_id |-> loc[p].uid, content |-> loc[p].content,
                  spoiler_of |-> loc[p].spoilerOf, nsfw |-> loc[p].nsfw,
                  likes_count |-> 0, comments_count |-> 0,
                  created_at |-> postSeq + 1]]
    /\ loc' = [loc EXCEPT ![p].postID = postSeq + 1, ![p].mine = TRUE]
    /\ pc' = [pc EXCEPT ![p] = "cp_timeline"]
    /\ UNCHANGED <<users, follows, posts, timeline, userSeq, timelineSeq,
                   resp, tasks, pre, last, steady, socvars, listed>>

\* CREATE UNIQUE INDEX timeline_unique ON timeline (user_id, post_id):
\* rows may join the table tl only if no two entries share owner and post
timeline_unique(tl, rows) ==
    \A r \in rows : \A o \in tl \cup rows :
        (o.user_id = r.user_id /\ o.post_id = r.post_id) => o = r

\* the goroutine started before tx.Commit()
CreatePostInsertTimelineSpawns(p) ==
    /\ pc[p] = "cp_timeline"
    /\ LET row == [id |-> timelineSeq + 1, user_id |-> loc[p].uid,
                   post_id |-> loc[p].postID]
       IN  /\ timelineSeq' = timelineSeq + 1
           /\ tx' = [tx EXCEPT ![p].timeline = {row}]
           /\ loc' = [loc EXCEPT ![p].tiID = row.id,
                                       ![p].tiUserID = loc[p].uid]
           /\ pc' = [pc EXCEPT ![p] = "cp_commit"]
           /\ tasks' = tasks \cup {[post |-> loc[p].postID,
                                    user_id |-> loc[p].uid, pc |-> "userByID",
                                    tt |-> {}]}
    /\ UNCHANGED <<users, follows, posts, timeline, userSeq, postSeq,
                   resp, pre, last, steady, socvars, listed>>

\* INSERT INTO timeline (user_id, post_id) VALUES ($1, $2) RETURNING id
CreatePostInsertTimeline(p) ==
    /\ pc[p] = "cp_timeline"
    /\ LET row == [id |-> timelineSeq + 1, user_id |-> loc[p].uid,
                   post_id |-> loc[p].postID]
       IN  /\ timelineSeq' = timelineSeq + 1
           /\ IF timeline_unique(timeline, {row})
              THEN /\ tx' = [tx EXCEPT ![p].timeline = {row}]
                   /\ loc' = [loc EXCEPT ![p].tiID = row.id,
                                       ![p].tiUserID = loc[p].uid]
                   /\ pc' = [pc EXCEPT ![p] = "cp_commit"]
                   /\ UNCHANGED <<resp, pre, last, socvars, listed>>
              ELSE Return(p, Resp(p, ErrInternal), NoLast)
    /\ UNCHANGED <<users, follows, posts, timeline, userSeq, postSeq,
                   tasks, steady, socvars, listed>>

\* the users u follows, taken for its followers
FollowersOfWrongKey(u) == {e[2] : e \in {f \in follows : f[1] = u}}

\* SELECT follower_id FROM follows WHERE followee_id = u
FollowersOf(u) == {e[1] : e \in {f \in follows : f[2] = u}}

\* the committed edges to u, for the record kept in steady
EdgeSources(u) == {a \in DOMAIN users : <<a, u>> \in follows}

\* tx.Commit(), then go func(p Post) {...}(ti.Post)
CreatePostCommit(p) ==
    /\ pc[p] = "cp_commit"
    /\ posts' = posts @@ tx[p].posts
    /\ timeline' = timeline \cup tx[p].timeline
    /\ tasks' = tasks \cup {[post |-> loc[p].postID, user_id |-> loc[p].uid,
                             pc |-> "userByID", tt |-> {}]}
    /\ steady' = steady @@ (loc[p].postID :>
                    [at |-> EdgeSources(loc[p].uid),
                     still |-> EdgeSources(loc[p].uid)])
    /\ tx' = [tx EXCEPT ![p] = NoTx]
    /\ pc' = [pc EXCEPT ![p] = "cp_return"]
    /\ UNCHANGED <<users, follows, userSeq, postSeq, timelineSeq,
                   loc, resp, pre, last, socvars, listed>>

\* return ti, nil
CreatePostReturn(p) ==
    /\ pc[p] = "cp_return"
    /\ Return(p, Resp(p, Nil), NoLast)
    /\ UNCHANGED <<dbvars, tasks, steady, listed>>

\* ------------------------------------------------------------------ fan-out
\* the ways the store may number n new rows: rows come back from the scan of
\* follows in no promised order, so any owner may get any of the next n ids
Numberings(owners) ==
    LET ids == (timelineSeq + 1)..(timelineSeq + Cardinality(owners))
    IN  {f \in [owners -> ids] : \A a, b \in owners : f[a] = f[b] => a = b}

\* s.userByID(context.Background(), p.UserID): SELECT username, avatar FROM users
FanoutUserByID(t) ==
    /\ t \in tasks
    /\ t.pc = "userByID"
    /\ tasks' = IF t.user_id \in DOMAIN users
                THEN (tasks \ {t}) \cup {[t EXCEPT !.pc = "fanoutPost"]}
                ELSE tasks \ {t}
    /\ UNCHANGED <<dbvars, pc, loc, tx, resp, pre, last, steady, listed>>

\* user_id REFERENCES users(id), post_id REFERENCES posts(id)
timeline_fk(rows) ==
    \A r \in rows : r.user_id \in DOMAIN users /\ r.post_id \in DOMAIN posts

\* the statement selecting followee_id, on a table without timeline_unique
fanoutPostFolloweeColumn(t) ==
    /\ t \in tasks
    /\ t.pc = "fanoutPost"
    /\ \E f \in Numberings(FollowersOf(t.user_id)) :
         LET rows == {[id |-> f[u], user_id |-> t.user_id, post_id |-> t.post] :
                        u \in FollowersOf(t.user_id)}
         IN  /\ timeline' = timeline \cup rows
             /\ timelineSeq' = timelineSeq + Cardinality(rows)
    /\ tasks' = tasks \ {t}
    /\ UNCHANGED <<users, follows, posts, userSeq, postSeq,
                   pc, loc, tx, resp, pre, last, steady, socvars, listed>>

\* INSERT INTO timeline (user_id, post_id)
\*   SELECT follower_id, $1 FROM follows WHERE followee_id = $2
\* one statement: it reads the committed follow edges, and inserts every row
\* or, when a row breaks a foreign key or timeline_unique, none
fanoutPost(t) ==
    /\ t \in tasks
    /\ t.pc = "fanoutPost"
    /\ \E f \in Numberings(FollowersOf(t.user_id)) :
         LET rows == {[id |-> f[u], user_id |-> u, post_id |-> t.post] :
                        u \in FollowersOf(t.user_id)}
             ok   == timeline_fk(rows) /\ timeline_unique(timeline, rows)
         IN  /\ timeline' = IF ok THEN timeline \cup rows ELSE timeline
             /\ timelineSeq' = timelineSeq + Cardinality(rows)
             /\ tasks' = IF ok /\ rows # {}
                         THEN (tasks \ {t}) \cup
                                 {[t EXCEPT !.pc = "range", !.tt = rows]}
                         ELSE tasks \ {t}
    /\ UNCHANGED <<users, follows, posts, userSeq, postSeq,
                   pc, loc, tx, resp, pre, last, steady, socvars, listed>>

\* for _, ti = range tt: the loop assigns to the ti that CreatePost returns,
\* with nothing ordering the writes and the read of `return ti, nil`; a call
\* still to return may read any mix of its own fields and those of the rows
FanoutRange(t) ==
    /\ t \in tasks
    /\ t.pc = "range"
    /\ tasks' = tasks \ {t}
    /\ IF \E p \in Procs : pc[p] = "cp_return" /\ loc[p].postID = t.post
       THEN \E p \in {q \in Procs : pc[q] = "cp_return" /\ loc[q].postID = t.post},
               id \in {r.id : r \in t.tt}, o \in {r.user_id : r \in t.tt} :
              \E i \in {loc[p].tiID, id}, u \in {loc[p].tiUserID, o},
                 m \in BOOLEAN :
                 loc' = [loc EXCEPT ![p].tiID = i, ![p].tiUserID = u,
                                    ![p].mine = m]
       ELSE loc' = loc
    /\ UNCHANGED <<dbvars, pc, tx, resp, pre, last, steady, listed>>

\* the fan-out error handed to the request that is about to return
FanoutFaultSurfaced(t) ==
    /\ t \in tasks
    /\ t.pc # "range"
    /\ tasks' = tasks \ {t}
    /\ \E p \in Procs :
         /\ pc[p] = "cp_return"
         /\ loc[p].postID = t.post
         /\ Return(p, Resp(p, ErrInternal), NoLast)
    /\ UNCHANGED <<dbvars, steady, listed>>

\* either statement of the goroutine fails: log.Printf and return
FanoutFault(t) ==
    /\ t \in tasks
    /\ t.pc # "range"
    /\ tasks' = tasks \ {t}
    /\ UNCHANGED <<dbvars, pc, loc, tx, resp, pre, last, steady, listed>>

\* ------------------------------------------------------------------ TogglePostLike

\* SQLSTATE of what an INSERT ran into
NoViolation         == "00000"
ForeignKeyViolation == "23503"
UniqueViolation     == "23505"

\* whether err is the store's foreign-key violation
isForeignKeyViolation(code) == code = ForeignKeyViolation

\* post ids a caller may name: those the sequence can give, and one past them
PostIdInputs == 1..(MaxPostSeq + 1)

CallTogglePostLikeBy(p, uids) ==
    /\ pc[p] = "idle"
    /\ \E uid \in uids, postID \in PostIdInputs :
         IF Unauthenticated(uid)
         THEN Reject(p, "TogglePostLike", uid, <<>>, ErrUnauthenticated)
         ELSE Enter(p, [NoLoc EXCEPT !.op = "TogglePostLike", !.uid = uid,
                                     !.postID = postID], "pl_exists")

CallTogglePostLike(p) ==
    CallTogglePostLikeBy(p, DOMAIN users \cup {NoAuth})

\* BeginTx; SELECT EXISTS (SELECT 1 FROM post_likes WHERE user_id = $1 and post_id = $2)
TogglePostLikeExists(p) ==
    /\ pc[p] = "pl_exists"
    /\ loc' = [loc EXCEPT ![p].Liked = <<loc[p].uid, loc[p].postID>> \in post_likes]
    /\ pc' = [pc EXCEPT ![p] = "pl_edge"]
    /\ UNCHANGED <<dbvars, tx, resp, tasks, pre, last, steady, listed>>

\* what INSERT INTO post_likes (user_id, post_id) VALUES (u, q) runs into:
\* user_id REFERENCES users(id), post_id REFERENCES posts(id), PRIMARY KEY
PostLikeInsert(u, q) ==
    IF u \notin DOMAIN users \/ q \notin DOMAIN posts THEN ForeignKeyViolation
    ELSE IF <<u, q>> \in post_likes THEN UniqueViolation
    ELSE NoViolation

\* the test of the insert's error for a foreign-key violation left out
PostLikeMissingAny(code) == FALSE

\* if isForeignKeyViolation(err) { return out, ErrPostNotFound }
PostLikeMissing(code) == isForeignKeyViolation(code)

\* DELETE FROM post_likes ..., or INSERT INTO post_likes ...
TogglePostLikeEdge(p) ==
    /\ pc[p] = "pl_edge"
    /\ LET e    == <<loc[p].uid, loc[p].postID>>
           code == PostLikeInsert(loc[p].uid, loc[p].postID)
       IN  IF loc[p].Liked
           THEN /\ tx' = [tx EXCEPT ![p].likes_del = {e}]
                /\ pc' = [pc EXCEPT ![p] = "pl_count"]
                /\ UNCHANGED <<loc, resp, pre, last>>
           ELSE IF PostLikeMissing(code)
           THEN Return(p, Resp(p, ErrPostNotFound), NoLast)
           ELSE IF code # NoViolation
           THEN Return(p, Resp(p, ErrInternal), NoLast)
           ELSE /\ tx' = [tx EXCEPT ![p].likes_ins = {e}]
                /\ pc' = [pc EXCEPT ![p] = "pl_count"]
                /\ UNCHANGED <<loc, resp, pre, last>>
    /\ UNCHANGED <<dbvars, tasks, steady, listed>>

\* UPDATE posts SET likes_count = likes_count +/- 1 WHERE user_id = $1, run
\* with postID for $1: the rows it picks
PostLikeRows(postID) == {q \in DOMAIN posts : posts[q].user_id = postID}

\* ... RETURNING likes_count, through QueryRowContext(...).Scan: every picked row
\* is updated unless the new value breaks CHECK (likes_count >= 0); Scan reads
\* the first row returned, whichever that is, and fails when there is none
TogglePostLikeCount(p) ==
    /\ pc[p] = "pl_count"
    /\ LET d    == IF loc[p].Liked THEN -1 ELSE 1
           rows == PostLikeRows(loc[p].postID)
           new  == [q \in rows |->
                      [posts[q] EXCEPT !.likes_count = @ + d]]
       IN  IF rows = {} \/ \E q \in rows : new[q].likes_count < 0
           THEN Return(p, Resp(p, ErrInternal), NoLast)
           ELSE /\ \E q \in rows :
                     loc' = [loc EXCEPT ![p].LikesCount = new[q].likes_count]
                /\ tx' = [tx EXCEPT ![p].prows = new]
                /\ pc' = [pc EXCEPT ![p] = "pl_commit"]
                /\ UNCHANGED <<resp, pre, last>>
    /\ UNCHANGED <<dbvars, tasks, steady, listed>>

\* tx.Commit(); out.Liked = !out.Liked; return out, nil
TogglePostLikeCommit(p) ==
    /\ pc[p] = "pl_commit"
    /\ post_likes' = (post_likes \ tx[p].likes_del) \cup tx[p].likes_ins
    /\ posts' = [q \in DOMAIN posts |->
                   IF q \in DOMAIN tx[p].prows THEN tx[p].prows[q] ELSE posts[q]]
    /\ Return(p, [Resp(p, Nil) EXCEPT !.Liked = ~loc[p].Liked], NoLast)
    /\ UNCHANGED <<users, follows, timeline, userSeq, postSeq, timelineSeq,
                   comments, comment_likes, commentSeq, tasks, steady, listed>>

\* ------------------------------------------------------------------ CreateComment

\* content == "" || len([]rune(content)) == 480
InvalidCommentContent(content) == content = <<>> \/ Len(content) = MaxContentLen

\* CreateComment(ctx, postID, content) up to its first statement
CreateCommentCall(p, uid, postID, c) ==
    /\ pc[p] = "idle"
    /\ commentSeq < MaxCommentSeq
    /\ LET content == TrimSpace(c)
       IN  IF Unauthenticated(uid)
           THEN Reject(p, "CreateComment", uid, <<>>, ErrUnauthenticated)
           ELSE IF InvalidCommentContent(content)
           THEN Reject(p, "CreateComment", uid, <<>>, ErrInvalidContent)
           ELSE Enter(p, [NoLoc EXCEPT !.op = "CreateComment", !.uid = uid,
                                       !.postID = postID, !.content = content],
                      "cc_insert")

CallCreateCommentBy(p, uids, contents) ==
    \E uid \in uids, postID \in PostIdInputs, c \in contents :
       CreateCommentCall(p, uid, postID, c)

CallCreateCommentFrom(p, contents) ==
    CallCreateCommentBy(p, DOMAIN users \cup {NoAuth}, contents)

CallCreateComment(p) == CallCreateCommentFrom(p, ContentInputs)

\* what INSERT INTO comments (user_id, post_id, content) runs into:
\* user_id REFERENCES users(id), post_id REFERENCES posts(id)
CommentInsert(u, q) ==
    IF u \notin DOMAIN users \/ q \notin DOMAIN posts THEN ForeignKeyViolation
    ELSE NoViolation

\* if isForeignKeyViolation(err) { return c, ErrPostNotFound }
CommentPostMissing(code) == isForeignKeyViolation(code)

\* BeginTx; INSERT INTO comments (user_id, post_id, content) RETURNING id;
\* the sequence moves on whether or not the row goes in
CreateCommentInsert(p) ==
    /\ pc[p] = "cc_insert"
    /\ commentSeq' = commentSeq + 1
    /\ LET code == CommentInsert(loc[p].uid, loc[p].postID)
       IN  IF CommentPostMissing(code)
           THEN Return(p, Resp(p, ErrPostNotFound), NoLast)
           ELSE IF code # NoViolation
           THEN Return(p, Resp(p, ErrInternal), NoLast)
           ELSE /\ tx' = [tx EXCEPT ![p].comments = (commentSeq + 1) :>
                            [user_id |-> loc[p].uid, post_id |-> loc[p].postID,
                             content |-> loc[p].content, likes_count |-> 0,
                             created_at |-> commentSeq + 1]]
                /\ loc' = [loc EXCEPT ![p].commentID = commentSeq + 1,
                                      ![p].mine = TRUE]
                /\ pc' = [pc EXCEPT ![p] = "cc_count"]
                /\ UNCHANGED <<resp, pre, last>>
    /\ UNCHANGED <<users, follows, posts, timeline, userSeq, postSeq,
                   timelineSeq, post_likes, comments, comment_likes,
                   tasks, steady, listed>>

\* the counter update sent to s.db instead of tx: it commits on its own
CreateCommentCountAutocommit(p) ==
    /\ pc[p] = "cc_count"
    /\ posts' = [q \in DOMAIN posts |->
                   IF q = loc[p].postID
                   THEN [posts[q] EXCEPT !.comments_count = @ + 1]
                   ELSE posts[q]]
    /\ pc' = [pc EXCEPT ![p] = "cc_commit"]
    /\ UNCHANGED <<users, follows, timeline, userSeq, postSeq, timelineSeq,
                   socvars, loc, tx, resp, tasks, pre, last, steady, listed>>

\* UPDATE posts SET comments_count = comments_count + 1 WHERE id = $1
CreateCommentCount(p) ==
    /\ pc[p] = "cc_count"
    /\ tx' = [tx EXCEPT ![p].prows =
                 [q \in {r \in DOMAIN posts : r = loc[p].postID} |->
                     [posts[q] EXCEPT !.comments_count = @ + 1]]]
    /\ pc' = [pc EXCEPT ![p] = "cc_commit"]
    /\ UNCHANGED <<dbvars, loc, resp, tasks, pre, last, steady, listed>>

\* tx.Commit(); return c, nil
CreateCommentCommit(p) ==
    /\ pc[p] = "cc_commit"
    /\ comments' = comments @@ tx[p].comments
    /\ posts' = [q \in DOMAIN posts |->
                   IF q \in DOMAIN tx[p].prows THEN tx[p].prows[q] ELSE posts[q]]
    /\ Return(p, Resp(p, Nil), NoLast)
    /\ UNCHANGED <<users, follows, timeline, userSeq, postSeq, timelineSeq,
                   post_likes, comment_likes, commentSeq, tasks, steady, listed>>

\* ------------------------------------------------------------------ ToggleCommentLike
\* comment ids a caller may name: those the sequence can give, and one past them
CommentIdInputs == 1..(MaxCommentSeq + 1)

CallToggleCommentLikeBy(p, uids) ==
    /\ pc[p] = "idle"
    /\ \E uid \in uids, commentID \in CommentIdInputs :
         IF Unauthenticated(uid)
         THEN Reject(p, "ToggleCommentLike", uid, <<>>, ErrUnauthenticated)
         ELSE Enter(p, [NoLoc EXCEPT !.op = "ToggleCommentLike", !.uid = uid,
                                     !.commentID = commentID], "cl_exists")

CallToggleCommentLike(p) ==
    CallToggleCommentLikeBy(p, DOMAIN users \cup {NoAuth})

\* BeginTx; SELECT EXISTS (SELECT 1 FROM comment_likes
\*                         WHERE user_id = $1 AND comment_id = $2)
ToggleCommentLikeExists(p) ==
    /\ pc[p] = "cl_exists"
    /\ loc' = [loc EXCEPT ![p].Liked =
                   <<loc[p].uid, loc[p].commentID>> \in comment_likes]
    /\ pc' = [pc EXCEPT ![p] = "cl_edge"]
    /\ UNCHANGED <<dbvars, tx, resp, tasks, pre, last, steady, listed>>

\* what INSERT into comment_likes (user_id, comment_id) VALUES (u, c) runs into:
\* user_id REFERENCES users(id), comment_id REFERENCES comments(id), PRIMARY KEY
CommentLikeInsert(u, c) ==
    IF u \notin DOMAIN users \/ c \notin DOMAIN comments THEN ForeignKeyViolation
    ELSE IF <<u, c>> \in comment_likes THEN UniqueViolation
    ELSE NoViolation

\* DELETE FROM comment_likes ..., or INSERT into comment_likes ...
ToggleCommentLikeEdge(p) ==
    /\ pc[p] = "cl_edge"
    /\ LET e    == <<loc[p].uid, loc[p].commentID>>
           code == CommentLikeInsert(loc[p].uid, loc[p].commentID)
       IN  IF loc[p].Liked
           THEN /\ tx' = [tx EXCEPT ![p].clikes_del = {e}]
                /\ pc' = [pc EXCEPT ![p] = "cl_count"]
                /\ UNCHANGED <<loc, resp, pre, last>>
           ELSE IF isForeignKeyViolation(code)
           THEN Return(p, Resp(p, ErrCommentNotFound), NoLast)
           ELSE IF code # NoViolation
           THEN Return(p, Resp(p, ErrInternal), NoLast)
           ELSE /\ tx' = [tx EXCEPT ![p].clikes_ins = {e}]
                /\ pc' = [pc EXCEPT ![p] = "cl_count"]
                /\ UNCHANGED <<loc, resp, pre, last>>
    /\ UNCHANGED <<dbvars, tasks, steady, listed>>

\* the counter update keyed by the comment's author
CommentLikeRowsByAuthor(commentID) ==
    {c \in DOMAIN comments : comments[c].user_id = commentID}

\* UPDATE comments SET likes_count = likes_count +/- 1 WHERE id = $1: the rows
\* it picks
CommentLikeRows(commentID) == {c \in DOMAIN comments : c = commentID}

\* ... RETURNING likes_count, through QueryRowContext(...).Scan
ToggleCommentLikeCount(p) ==
    /\ pc[p] = "cl_count"
    /\ LET d    == IF loc[p].Liked THEN -1 ELSE 1
           rows == CommentLikeRows(loc[p].commentID)
           new  == [c \in rows |->
                      [comments[c] EXCEPT !.likes_count = @ + d]]
       IN  IF rows = {} \/ \E c \in rows : new[c].likes_count < 0
           THEN Return(p, Resp(p, ErrInternal), NoLast)
           ELSE /\ \E c \in rows :
                     loc' = [loc EXCEPT ![p].LikesCount = new[c].likes_count]
                /\ tx' = [tx EXCEPT ![p].crows = new]
                /\ pc' = [pc EXCEPT ![p] = "cl_commit"]
                /\ UNCHANGED <<resp, pre, last>>
    /\ UNCHANGED <<dbvars, tasks, steady, listed>>

\* tx.Commit(); out.Liked = !out.Liked; return out, nil
ToggleCommentLikeCommit(p) ==
    /\ pc[p] = "cl_commit"
    /\ comment_likes' = (comment_likes \ tx[p].clikes_del) \cup tx[p].clikes_ins
    /\ comments' = [c \in DOMAIN comments |->
                   IF c \in DOMAIN tx[p].crows THEN tx[p].crows[c]
                   ELSE comments[c]]
    /\ Return(p, [Resp(p, Nil) EXCEPT !.Liked = ~loc[p].Liked], NoLast)
    /\ UNCHANGED <<users, follows, posts, timeline, userSeq, postSeq,
                   timelineSeq, post_likes, commentSeq, tasks, steady, listed>>

\* ------------------------------------------------------------------ faults
\* where a call is about to run a statement of its transaction
StmtLabels == {"cu_insert", "tf_lookup", "tf_exists", "tf_edge", "tf_followees",
               "tf_followers", "tf_commit", "cp_post", "cp_timeline", "cp_commit",
               "pl_exists", "pl_edge", "pl_count", "pl_commit",
               "cc_insert", "cc_count", "cc_commit",
               "cl_exists", "cl_edge", "cl_count", "cl_commit"}

\* the statement fails in the store (connection lost, context cancelled ...):
\* the call wraps the error, returns it, and the deferred Rollback runs
Fault(p) ==
    /\ pc[p] \in StmtLabels
    /\ Abort(p, ErrInternal)

\* ------------------------------------------------------------------ specifications
CreateUserStep(p) == CallCreateUser(p) \/ CreateUserInsert(p)

\* the statements of a call under way
ToggleFollowRun(p) ==
    \/ ToggleFollowLookup(p)
    \/ ToggleFollowExists(p)
    \/ ToggleFollowEdge(p)
    \/ ToggleFollowFollowees(p)
    \/ ToggleFollowFollowers(p)
    \/ ToggleFollowCommit(p)

ToggleFollowStep(p) == CallToggleFollow(p) \/ ToggleFollowRun(p)

CreateCommentStep(p) ==
    \/ CallCreateComment(p)
    \/ CreateCommentInsert(p)
    \/ CreateCommentCount(p)
    \/ CreateCommentCommit(p)

ToggleCommentLikeStep(p) ==
    \/ CallToggleCommentLike(p)
    \/ ToggleCommentLikeExists(p)
    \/ ToggleCommentLikeEdge(p)
    \/ ToggleCommentLikeCount(p)
    \/ ToggleCommentLikeCommit(p)

TogglePostLikeStep(p) ==
    \/ CallTogglePostLike(p)
    \/ TogglePostLikeExists(p)
    \/ TogglePostLikeEdge(p)
    \/ TogglePostLikeCount(p)
    \/ TogglePostLikeCommit(p)

CreatePostStep(p) ==
    \/ CallCreatePost(p)
    \/ CreatePostInsertPost(p)
    \/ CreatePostInsertTimeline(p)
    \/ CreatePostCommit(p)
    \/ CreatePostReturn(p)

\* the ids CreatePost can give a post
NewPostIds == 2..MaxPostSeq

NoTask == [post |-> 0, user_id |-> 0, pc |-> "none", tt |-> {}]

\* the goroutine CreatePost started for post q, if it has not ended
TaskOf(q) ==
    IF \E t \in tasks : t.post = q
    THEN CHOOSE t \in tasks : t.post = q
    ELSE NoTask

FanoutStep ==
    \E q \in NewPostIds : \/ FanoutUserByID(TaskOf(q))
                           \/ fanoutPost(TaskOf(q))
                           \/ FanoutRange(TaskOf(q))

\* CreateUser and ToggleFollow calls, one at a time: one handler serves them
Next ==
    \E p \in {1} : CreateUserStep(p) \/ ToggleFollowStep(p) \/ Fault(p)

Spec == Init /\ [][Next]_vars

\* the follow graphs of the seeded users that calls run one at a time leave
\* behind: no self edge, counters that count the edges
Graphs ==
    {g \in SUBSET {e \in (DOMAIN SeedUsers) \X (DOMAIN SeedUsers) : e[1] # e[2]} :
        Cardinality(g) <= MaxFollowsAtStart}

UsersOf(g) ==
    [u \in DOMAIN SeedUsers |->
        [SeedUsers[u] EXCEPT
            !.followers_count = Cardinality({e \in g : e[2] = u}),
            !.followees_count = Cardinality({e \in g : e[1] = u})]]

InitOn(graphs) ==
    /\ SocInit
    /\ \E g \in graphs : follows = g /\ users = UsersOf(g)
    /\ posts = SeedPosts
    /\ timeline = SeedTimeline
    /\ userSeq = 3
    /\ postSeq = 1
    /\ timelineSeq = 1
    /\ pc = [p \in Procs |-> "idle"]
    /\ loc = [p \in Procs |-> NoLoc]
    /\ tx = [p \in Procs |-> NoTx]
    /\ resp = [p \in Procs |-> NoResp]
    /\ tasks = {}
    /\ pre = [p \in Procs |-> NoPre]
    /\ last = NoLast
    /\ steady = EmptyFn

GraphInit == InitOn(Graphs)

PostInit == InitOn({g \in Graphs : Cardinality(g) <= MaxFollowsAtPost})

\* this handler has not served a call yet
Fresh(p) == pc[p] = "idle" /\ resp[p].op = "none"

CallToggleFollowOnce(p) == Fresh(p) /\ CallToggleFollow(p)

\* one ToggleFollow call per handler, in any interleaving, on such a graph
ConcNext ==
    \E p \in Procs :
        \/ CallToggleFollowOnce(p)
        \/ ToggleFollowRun(p)
        \/ DeadlockAbort(p)
        \/ Fault(p)

ConcSpec == GraphInit /\ [][ConcNext]_vars

\* CreatePost calls served by one handler while another serves ToggleFollow
\* calls, the fan-out goroutines, and failing statements, on such a graph
PostNext ==
    \/ \E p \in {1} : CreatePostStep(p) \/ Fault(p)
    \/ \E p \in {2} : CallToggleFollowOnce(p) \/ ToggleFollowRun(p)
    \/ \E q \in NewPostIds : \/ FanoutUserByID(TaskOf(q))
                             \/ fanoutPost(TaskOf(q))
                             \/ FanoutRange(TaskOf(q))
                             \/ FanoutFault(TaskOf(q))

PostSpec == PostInit /\ [][PostNext]_vars

\* the same without a failing statement; a started goroutine gets to run
LiveNext ==
    \/ \E p \in {1} : CreatePostStep(p)
    \/ \E p \in {2} : CallToggleFollowOnce(p) \/ ToggleFollowRun(p)
    \/ FanoutStep

LiveSpec == PostInit /\ [][LiveNext]_vars /\ WF_vars(FanoutStep)

\* s.fanoutPost(p) called once more for a post whose goroutine has ended
FanoutAgain(q) ==
    /\ q \in DOMAIN posts
    /\ q \in DOMAIN steady
    /\ TaskOf(q) = NoTask
    /\ timelineSeq < MaxTimelineSeq
    /\ tasks' = tasks \cup {[post |-> q, user_id |-> posts[q].user_id,
                             pc |-> "fanoutPost", tt |-> {}]}
    /\ UNCHANGED <<dbvars, pc, loc, tx, resp, pre, last, steady, listed>>

\* CreatePost calls and their goroutines, ToggleFollow calls, and fan-out
\* called again for a post
RefanNext ==
    \/ \E p \in {1} : CreatePostStep(p)
    \/ \E p \in {2} : CallToggleFollowOnce(p) \/ ToggleFollowRun(p)
    \/ \E q \in NewPostIds : \/ FanoutUserByID(TaskOf(q))
                             \/ fanoutPost(TaskOf(q))
                             \/ FanoutRange(TaskOf(q))
                             \/ FanoutAgain(q)

RefanSpec == PostInit /\ [][RefanNext]_vars

\* CreatePost and TogglePostLike calls, one at a time, no failing statement;
\* nobody follows anybody, so the goroutine of a post has no row to insert
LikeNext ==
    \/ \E p \in {1} : CreatePostStep(p) \/ TogglePostLikeStep(p)
    \/ \E q \in NewPostIds : \/ FanoutUserByID(TaskOf(q))
                             \/ fanoutPost(TaskOf(q))

LikeSpec == Init /\ [][LikeNext]_vars

\* CreatePost and CreateComment calls, one at a time, any statement of which
\* may fail
CommentNext ==
    \/ \E p \in {1} : CreatePostStep(p) \/ CreateCommentStep(p) \/ Fault(p)
    \/ \E q \in NewPostIds : \/ FanoutUserByID(TaskOf(q))
                             \/ fanoutPost(TaskOf(q))

CommentSpec == Init /\ [][CommentNext]_vars

\* CreateComment and ToggleCommentLike calls, one at a time
CommentLikeNext ==
    \E p \in {1} : CreateCommentStep(p) \/ ToggleCommentLikeStep(p)

CommentLikeSpec == Init /\ [][CommentLikeNext]_vars

\* CreatePost and CreateComment calls with contents and spoiler labels around
\* the limits, one call at a time, no failing statement
LimitNext ==
    \/ \E p \in {1} :
          \/ CallCreatePostFrom(p, LongContentInputs, LongSpoilerInputs)
          \/ CreatePostInsertPost(p)
          \/ CreatePostInsertTimeline(p)
          \/ CreatePostCommit(p)
          \/ CreatePostReturn(p)
          \/ CallCreateCommentFrom(p, LongContentInputs)
          \/ CreateCommentInsert(p)
          \/ CreateCommentCount(p)
          \/ CreateCommentCommit(p)
    \/ \E q \in NewPostIds : \/ FanoutUserByID(TaskOf(q))
                             \/ fanoutPost(TaskOf(q))

LimitSpec == Init /\ [][LimitNext]_vars

\* ------------------------------------------------------------------ the follow graph
EdgesTo(u)   == Cardinality({e \in follows : e[2] = u})
EdgesFrom(u) == Cardinality({e \in follows : e[1] = u})

\* C1: with CreateUser and ToggleFollow calls run one at a time, in every
\* committed state each user's followers_count is the number of follow edges
\* naming the user as followee, and followees_count the number naming the
\* user as follower.
C1_CountersMatchEdges ==
    \A u \in DOMAIN users :
        /\ users[u].followers_count = EdgesTo(u)
        /\ users[u].followees_count = EdgesFrom(u)

\* a user made by CreateUser follows, a seeded user has a follower, and the
\* last call was an un-follow
C1_Witness ==
    /\ \E u \in DOMAIN users \ DOMAIN SeedUsers : users[u].followees_count = 1
    /\ \E u \in DOMAIN SeedUsers : users[u].followers_count = 1
    /\ resp[1].op = "ToggleFollow" /\ resp[1].err = Nil /\ ~resp[1].Following

\* every handler has served its one call
Settled == \A p \in Procs : pc[p] = "idle" /\ resp[p].op = "ToggleFollow"

\* C2: once N concurrent ToggleFollow calls of one (caller, target) pair have
\* all committed or rolled back, the target's followers_count and the
\* caller's followees_count equal the number of edges that exist for them.
C2_ConcurrentTogglesConsistent ==
    \A a, b \in DOMAIN users :
        (/\ Settled
         /\ \A p \in Procs : resp[p].uid = a /\ resp[p].followeeID = b)
        => /\ users[b].followers_count = EdgesTo(b)
           /\ users[a].followees_count = EdgesFrom(a)

\* a step that changes the follow graph or a counter is the commit of one
\* successful toggle: one edge flips and its two counters move with it
CommitsOneToggle(p) ==
    LET a == loc[p].uid
        b == loc[p].followeeID
        d == IF <<a, b>> \in follows THEN -1 ELSE 1
    IN  /\ pc[p] = "tf_commit"
        /\ pc'[p] = "idle"
        /\ resp'[p].err = Nil
        /\ follows' = IF d = 1 THEN follows \cup {<<a, b>>}
                      ELSE follows \ {<<a, b>>}
        /\ follows' # follows
        /\ Counts(users') =
             [u \in DOMAIN users |->
                <<users[u].followers_count + (IF u = b THEN d ELSE 0),
                  users[u].followees_count + (IF u = a THEN d ELSE 0)>>]

\* a ToggleFollow call returns an error
ReturnsError(p) ==
    /\ pc[p] \in {"tf_lookup", "tf_exists", "tf_edge", "tf_followees",
                  "tf_followers", "tf_commit"}
    /\ pc'[p] = "idle"
    /\ resp'[p].err # Nil

C3_Step ==
    /\ (\/ follows' # follows
        \/ \E u \in DOMAIN users : Counts(users')[u] # Counts(users)[u])
          => \E p \in Procs : CommitsOneToggle(p)
    /\ \A p \in Procs :
          ReturnsError(p) => /\ follows' = pre[p].follows
                             /\ Counts(users') = pre[p].counts

\* C3: ToggleFollow is atomic: the committed state never holds an edge change
\* without both counter changes, and a call that returns an error leaves the
\* follow edges and the counters as they were before the call.
C3_ToggleFollowAtomic == [][C3_Step]_vars

\* a call failed at commit, after the edge and both counters were written
C3_Witness ==
    /\ resp[1].op = "ToggleFollow"
    /\ resp[1].err = ErrInternal
    /\ resp[1].FollowersCount >= 1

\* the second of two consecutive successful toggles of one pair returns
SecondToggleReturns(p) ==
    /\ pc[p] = "tf_commit"
    /\ pc'[p] = "idle"
    /\ resp'[p].err = Nil
    /\ last.streak >= 1
    /\ last.uid = loc[p].uid
    /\ last.followeeID = loc[p].followeeID

C4_Step ==
    \A p \in Procs :
        SecondToggleReturns(p) =>
            /\ (<<loc[p].uid, loc[p].followeeID>> \in follows') = last.edgeBefore
            /\ resp'[p].Following = last.edgeBefore
            /\ users'[loc[p].uid].followees_count = last.followeesBefore
            /\ users'[loc[p].followeeID].followers_count = last.followersBefore

\* C4: two consecutive successful ToggleFollow calls of one caller on one
\* target, nothing in between, restore the edge, report the original
\* following state, and restore both counters.
C4_ToggleTwiceRestores == [][C4_Step]_vars

\* two such calls have returned: an un-follow of a target with two followers,
\* then a follow
C4_Witness ==
    /\ last.streak = 2
    /\ last.followersBefore = 1
    /\ resp[1].Following
    /\ users[resp[1].followeeID].followers_count = 2

NoSelfEdge == \A e \in follows : e[1] # e[2]

\* a call whose target resolved to the caller
SelfTargeted(r) ==
    r.op = "ToggleFollow" /\ r.uid # NoAuth /\ r.followeeID = r.uid

C5_Step ==
    \A p \in Procs :
        (pc[p] # "idle" /\ pc'[p] = "idle" /\ SelfTargeted(resp'[p]))
            => follows' = follows /\ users' = users

\* C5: a ToggleFollow call whose target resolves to the caller fails with
\* ErrForbiddenFollow and changes no edge and no counter, so no state holds
\* an edge from a user to itself.
C5_SelfFollowForbidden ==
    /\ [](NoSelfEdge /\ \A p \in Procs :
            SelfTargeted(resp[p]) => resp[p].err = ErrForbiddenFollow)
    /\ [][C5_Step]_vars

\* a self-follow was refused while the caller follows somebody else
C5_Witness ==
    /\ resp[1].err = ErrForbiddenFollow
    /\ users[resp[1].uid].followees_count >= 1

\* ------------------------------------------------------------------ posts and fan-out
\* the timeline entries of tl owned by u for post q
EntriesIn(tl, u, q) ==
    Cardinality({r \in tl : r.user_id = u /\ r.post_id = q})

Entries(u, q) == EntriesIn(timeline, u, q)

\* the goroutine started for post q has run
Fanned(q) == q \in DOMAIN steady /\ ~\E t \in tasks : t.post = q

C6_Safe ==
    \A q \in DOMAIN steady :
        /\ Entries(posts[q].user_id, q) = 1
        /\ \A u \in DOMAIN users : Entries(u, q) <= 1

C6_Delivered(q) ==
    /\ Fanned(q)
    /\ \A u \in steady[q].still : Entries(u, q) = 1

\* C6: after a successful CreatePost by A, with the fan-out goroutine
\* scheduled fairly and no failing statement, every user whose follow edge to
\* A lasts from the post commit until fan-out has run eventually has exactly
\* one timeline entry for the post, A has exactly one, and nobody (a user who
\* un-follows in between included) ever has more than one.
C6_FanoutDelivers ==
    /\ []C6_Safe
    /\ \A q \in NewPostIds : (q \in DOMAIN steady) ~> C6_Delivered(q)

\* fan-out has run for a post one follower of which stayed and got the entry,
\* and another un-followed between the commit and the fan-out
C6_Witness ==
    \E q \in DOMAIN steady :
        /\ Fanned(q)
        /\ steady[q].still # {}
        /\ steady[q].at \ steady[q].still # {}
        /\ \A u \in steady[q].still : Entries(u, q) = 1

\* a fan-out goroutine takes a step or ends
FanoutRuns == \E t \in tasks : t \notin tasks'

C7_Step ==
    /\ FanoutRuns => /\ posts' = posts
                     /\ timeline \subseteq timeline'
                     /\ \A p \in Procs : resp'[p].err = resp[p].err
                     /\ pc' = pc
    /\ \A p \in Procs :
          (pc[p] = "cp_return" /\ pc'[p] # "cp_return")
             => /\ resp'[p].err = Nil
                /\ resp'[p].postID \in DOMAIN posts'
                /\ EntriesIn(timeline', posts'[resp'[p].postID].user_id,
                             resp'[p].postID) = 1

\* C7: whatever the fan-out goroutine does, failing included, it removes
\* neither the committed post nor the author's timeline entry and changes no
\* response: once the post transaction has committed CreatePost returns
\* success.
C7_FanoutFailureSwallowed == [][C7_Step]_vars

\* fan-out failed for a post with a follower: the follower has no entry, the
\* post and the author's entry are there, and CreatePost returned success
C7_Witness ==
    \E q \in DOMAIN steady :
        /\ Fanned(q)
        /\ \E u \in steady[q].still : Entries(u, q) = 0
        /\ resp[1].op = "CreatePost" /\ resp[1].err = Nil /\ resp[1].postID = q
        /\ Entries(posts[q].user_id, q) = 1

C8_Inv == \A q \in DOMAIN posts : Entries(posts[q].user_id, q) >= 1

C8_Step ==
    \A p \in Procs :
        (/\ pc[p] \in {"cp_post", "cp_timeline", "cp_commit"}
         /\ pc'[p] = "idle"
         /\ resp'[p].err # Nil)
        => /\ posts' = posts
           /\ timeline' = timeline
           /\ loc[p].postID # 0 =>
                 /\ loc[p].postID \notin DOMAIN posts'
                 /\ \A r \in timeline' : r.post_id # loc[p].postID

\* C8: the post row and the author's timeline entry are committed together:
\* no committed state holds a post without its author's entry, and a
\* CreatePost that fails at either insert or at commit leaves neither row.
C8_PostAndEntryAtomic == []C8_Inv /\ [][C8_Step]_vars

\* a CreatePost failed at commit, after both inserts
C8_Witness ==
    /\ resp[1].op = "CreatePost"
    /\ resp[1].err = ErrInternal
    /\ resp[1].postID # 0
    /\ resp[1].tiID # 0

\* C9: fan-out for a post starts only after the post transaction committed:
\* every timeline entry, and every fan-out goroutine, is for a committed post
\* whose author's entry is committed; a rolled-back CreatePost leaves none.
C9_FanoutAfterCommit ==
    /\ \A r \in timeline :
          /\ r.post_id \in DOMAIN posts
          /\ Entries(posts[r.post_id].user_id, r.post_id) >= 1
    /\ \A t \in tasks :
          /\ t.post \in DOMAIN posts
          /\ Entries(t.user_id, t.post) >= 1

\* a follower holds an entry for a post made by CreatePost
C9_Witness ==
    \E r \in timeline :
        /\ r.post_id \in NewPostIds
        /\ r.user_id # posts[r.post_id].user_id

\* C10: in every state there is at most one timeline entry per (owner, post),
\* whatever the interleaving of CreatePost, fan-out and ToggleFollow.
C10_OneEntryPerOwnerAndPost ==
    \A r1, r2 \in timeline :
        (r1.user_id = r2.user_id /\ r1.post_id = r2.post_id) => r1 = r2

\* a post reached its author and two followers while a toggle committed
C10_Witness ==
    /\ \E q \in NewPostIds : Cardinality({r \in timeline : r.post_id = q}) = 3
    /\ resp[2].op = "ToggleFollow" /\ resp[2].err = Nil

\* ------------------------------------------------------------------ post likes
\* the post_likes edges of post q
LikesOf(q) == Cardinality({e \in post_likes : e[2] = q})

\* C11: with CreatePost and TogglePostLike calls run one at a time, in every
\* committed state each post's likes_count equals the number of post_likes
\* edges of that post.
C11_LikesCountMatchesEdges ==
    \A q \in DOMAIN posts : posts[q].likes_count = LikesOf(q)

\* a TogglePostLike call returns
PostLikeReturns(p) ==
    /\ pc[p] \in {"pl_exists", "pl_edge", "pl_count", "pl_commit"}
    /\ pc'[p] = "idle"

C12_Step ==
    \A p \in Procs :
        /\ (PostLikeReturns(p) /\ resp'[p].err = Nil) =>
              LET e == <<loc[p].uid, loc[p].postID>>
                  q == loc[p].postID
              IN  /\ post_likes' # post_likes
                  /\ post_likes' \in {post_likes \cup {e}, post_likes \ {e}}
                  /\ posts'[q].likes_count =
                        posts[q].likes_count + (IF e \in post_likes' THEN 1 ELSE -1)
                  /\ resp'[p].LikesCount = posts'[q].likes_count
                  /\ \A o \in DOMAIN posts \ {q} : posts'[o] = posts[o]
        /\ (PostLikeReturns(p) /\ loc[p].postID \in DOMAIN posts) =>
              resp'[p].err = Nil

\* C12: a successful TogglePostLike(postID) changes only the (caller, postID)
\* edge and the likes_count of post postID, returns that post's new
\* likes_count, leaves every other post's likes_count alone, and the call
\* succeeds for every existing post id, whoever authored which post.
C12_PostLikeFrame == [][C12_Step]_vars

C13_Step ==
    \A p \in Procs :
        (PostLikeReturns(p) /\ loc[p].postID \notin DOMAIN posts) =>
            /\ resp'[p].err = ErrPostNotFound
            /\ post_likes' = post_likes
            /\ posts' = posts

\* C13: TogglePostLike on a post id that does not exist fails with
\* ErrPostNotFound, leaves no post_likes row for that id and every post's
\* likes_count unchanged.
C13_PostLikeNotFound ==
    /\ [](\A e \in post_likes : e[2] \in DOMAIN posts)
    /\ [][C13_Step]_vars

\* such a call has returned, in a state that holds likes
C13_Witness ==
    /\ resp[1].op = "TogglePostLike"
    /\ resp[1].err = ErrPostNotFound
    /\ resp[1].postID \notin DOMAIN posts
    /\ post_likes # {}

\* ------------------------------------------------------------------ comments
\* the comment_likes edges of comment c
CommentLikesOf(c) == Cardinality({e \in comment_likes : e[2] = c})

C14_Inv == \A c \in DOMAIN comments : comments[c].likes_count = CommentLikesOf(c)

\* the second of two consecutive successful ToggleCommentLike calls of one
\* caller on one comment returns; resp still holds what the first returned
SecondCommentLikeReturns(p) ==
    /\ pc[p] = "cl_commit"
    /\ pc'[p] = "idle"
    /\ resp'[p].err = Nil
    /\ resp[p].op = "ToggleCommentLike"
    /\ resp[p].err = Nil
    /\ resp[p].uid = loc[p].uid
    /\ resp[p].commentID = loc[p].commentID

C14_Step ==
    \A p \in Procs :
        SecondCommentLikeReturns(p) =>
            LET c == loc[p].commentID
            IN  /\ resp'[p].Liked = ~resp[p].Liked
                /\ (<<loc[p].uid, c>> \in comment_likes') = ~resp[p].Liked
                /\ comments'[c].likes_count =
                      resp[p].LikesCount - (IF resp[p].Liked THEN 1 ELSE -1)
                /\ resp'[p].LikesCount = comments'[c].likes_count

\* C14: with CreateComment and ToggleCommentLike calls run one at a time, each
\* comment's likes_count equals the number of its comment_likes edges, and two
\* consecutive ToggleCommentLike calls of one caller on one comment restore
\* the liked state and the likes_count.
C14_CommentLikesMatchEdges == []C14_Inv /\ [][C14_Step]_vars

\* an un-like of a comment made by CreateComment has returned, and the comment
\* still has a like of somebody else
C14_Witness ==
    /\ resp[1].op = "ToggleCommentLike"
    /\ resp[1].err = Nil
    /\ ~resp[1].Liked
    /\ resp[1].commentID \in DOMAIN comments \ DOMAIN SeedComments
    /\ resp[1].LikesCount >= 1

\* the comments of post q
CommentsOf(q) ==
    Cardinality({c \in DOMAIN comments : comments[c].post_id = q})

C15_Inv == \A q \in DOMAIN posts : posts[q].comments_count = CommentsOf(q)

\* a CreateComment call returns after it reached the store
CreateCommentReturns(p) ==
    /\ pc[p] \in {"cc_insert", "cc_count", "cc_commit"}
    /\ pc'[p] = "idle"

C15_Step ==
    \A p \in Procs :
        CreateCommentReturns(p) =>
            IF resp'[p].err = Nil
            THEN LET c == resp'[p].commentID
                     q == resp'[p].postID
                 IN  /\ c \notin DOMAIN comments
                     /\ DOMAIN comments' = DOMAIN comments \cup {c}
                     /\ \A o \in DOMAIN comments : comments'[o] = comments[o]
                     /\ comments'[c].post_id = q
                     /\ posts'[q].comments_count = posts[q].comments_count + 1
                     /\ \A o \in DOMAIN posts \ {q} : posts'[o] = posts[o]
            ELSE comments' = comments /\ posts' = posts

\* C15: in every committed state each post's comments_count equals the number
\* of comments of that post: a successful CreateComment adds exactly one
\* comment and raises exactly that post's comments_count by one, together,
\* and a failed CreateComment changes neither.
C15_CommentsCountMatchesRows == []C15_Inv /\ [][C15_Step]_vars

\* a comment on a post made by CreatePost went in
C15_Witness ==
    /\ resp[1].op = "CreateComment"
    /\ resp[1].err = Nil
    /\ resp[1].postID \in NewPostIds
    /\ posts[resp[1].postID].comments_count = 1
    /\ posts[1].comments_count = 1

\* ------------------------------------------------------------------ listings
\* the page size policy: 10 when the size is 0, negative or unset, the ceiling
\* 10 when it is greater
DefaultPageSize == 10
MaxPageSize     == 10

normalizePageSize(n) ==
    IF n <= 0 THEN DefaultPageSize
    ELSE IF n > MaxPageSize THEN MaxPageSize
    ELSE n

\* the characters of usernames in the order of their code points
CharOrder ==
    <<"-", "0","1","2","3","4","5","6","7","8","9",
      "A","B","C","D","E","F","G","H","I","J","K","L","M",
      "N","O","P","Q","R","S","T","U","V","W","X","Y","Z", "_",
      "a","b","c","d","e","f","g","h","i","j","k","l","m",
      "n","o","p","q","r","s","t","u","v","w","x","y","z">>

CharRank(c) == CHOOSE i \in 1..Len(CharOrder) : CharOrder[i] = c

\* a <= b: the cursor compared with >= instead of >
RECURSIVE StrLessOrEqual(_, _)
StrLessOrEqual(a, b) ==
    IF a = <<>> THEN TRUE
    ELSE IF b = <<>> THEN FALSE
    ELSE IF Head(a) = Head(b) THEN StrLessOrEqual(Tail(a), Tail(b))
    ELSE CharRank(Head(a)) < CharRank(Head(b))

\* a < b, as username > @after and ORDER BY username compare two strings
RECURSIVE StrLess(_, _)
StrLess(a, b) ==
    IF b = <<>> THEN FALSE
    ELSE IF a = <<>> THEN TRUE
    ELSE IF Head(a) = Head(b) THEN StrLess(Tail(a), Tail(b))
    ELSE CharRank(Head(a)) < CharRank(Head(b))

\* s LIKE pat: % stands for any run of characters, _ for any one character,
\* a backslash takes the next character of the pattern as it is
RECURSIVE Like(_, _)
Like(s, pat) ==
    IF pat = <<>> THEN s = <<>>
    ELSE IF Head(pat) = "%"
    THEN Like(s, Tail(pat)) \/ (s # <<>> /\ Like(Tail(s), pat))
    ELSE IF Head(pat) = "_"
    THEN s # <<>> /\ Like(Tail(s), Tail(pat))
    ELSE IF Head(pat) = "\\" /\ Len(pat) >= 2
    THEN s # <<>> /\ Head(s) = pat[2] /\ Like(Tail(s), Tail(Tail(pat)))
    ELSE s # <<>> /\ Head(s) = Head(pat) /\ Like(Tail(s), Tail(pat))

\* username LIKE '%' || @search || '%'
LikeSearch(username, search) == Like(username, <<"%">> \o search \o <<"%">>)

\* ORDER BY username ASC over the user ids in ids
RECURSIVE ByUsername(_)
ByUsername(ids) ==
    IF ids = {} THEN <<>>
    ELSE LET u == CHOOSE x \in ids :
                     \A y \in ids \ {x} :
                        StrLess(users[x].username, users[y].username)
         IN  <<u>> \o ByUsername(ids \ {u})

\* the orders in which ORDER BY created_at DESC may give the rows ids, at[i]
\* being the created_at of row i: rows of one created_at come in any order
RECURSIVE OrdersByCreatedAtDesc(_, _)
OrdersByCreatedAtDesc(ids, at) ==
    IF ids = {} THEN {<<>>}
    ELSE UNION {{<<x>> \o r : r \in OrdersByCreatedAtDesc(ids \ {x}, at)} :
                  x \in {y \in ids : \A z \in ids : at[z] <= at[y]}}

\* the query without its LIMIT
LimitNone(rows, n) == rows

\* LIMIT @first, LIMIT @last
Limit(rows, n) == SubSeq(rows, 1, IF n < Len(rows) THEN n ELSE Len(rows))

\* the listings of posts, comments and timeline entries, paged by before
ContentListings == {"Posts", "Comments", "Timeline"}

\* this call asks for the page after the one the last call returned: same
\* listing, same caller, same size, before = the id of its last item
Continues(op, uid, name, target, size, before) ==
    /\ listed.op = op
    /\ listed.err = Nil
    /\ listed.paging
    /\ listed.uid = uid
    /\ listed.name = name
    /\ listed.target = target
    /\ listed.size = size
    /\ listed.rows # <<>>
    /\ before = listed.rows[Len(listed.rows)]

\* this call asks for the page after the one the last call returned: same
\* listing, same caller, same search, same size, after = the username of its
\* last item
ContinuesAfter(op, uid, name, size, after) ==
    /\ listed.op = op
    /\ listed.err = Nil
    /\ listed.paging
    /\ listed.uid = uid
    /\ listed.name = name
    /\ listed.size = size
    /\ listed.rows # <<>>
    /\ after = users[listed.rows[Len(listed.rows)]].username

\* the listing returns the rows of its query, item[r] for row r, or fails;
\* seen keeps the pages of a paging that began without a cursor (start), base
\* the rows that matched when it began; cont: the call goes on with it
ListingOf(op, uid, name, target, size, before, cont, start, rows, item, n, err) ==
    LET page == IF err = Nil THEN Limit(rows, n) ELSE <<>>
    IN  /\ listed' = [op |-> op, uid |-> uid, name |-> name,
                      target |-> target, size |-> size, before |-> before,
                      matched |-> Len(rows), rows |-> page,
                      items |-> [i \in DOMAIN page |-> item[page[i]]],
                      seen |-> IF cont THEN listed.seen \o page ELSE page,
                      base |-> IF cont THEN listed.base
                               ELSE {rows[i] : i \in DOMAIN rows},
                      paging |-> err = Nil /\ (start \/ cont),
                      err |-> err]
        /\ UNCHANGED <<dbvars, pc, loc, tx, resp, tasks, pre, last, steady>>

Listing(op, uid, name, target, size, before, rows, item, n, err) ==
    ListingOf(op, uid, name, target, size, before,
              Continues(op, uid, name, target, size, before),
              op \in ContentListings /\ before = 0, rows, item, n, err)

\* the page sizes asked for: unset or 0, negative, within 1..10, above 10
PageSizeInputs == {-1, 0, 1, 3, 10, 11, 500}
SearchInputs   == {<<>>, <<"m">>, <<" ", "u", " ">>, <<"_">>}
AfterInputs    == {<<>>, mladen}
ListUsernameInputs == {mladen, <<" ">> \o milutin, ana, <<"4">> \o ana}
BeforeInputs   == {0, 5}
CallerInputs   == {NoAuth, 1, 2}

\* the row as scanned, id and email left as they are
ProfileAsScanned(uid, u) ==
    [ID |-> u, Email |-> users[u].email, Username |-> users[u].username,
     FollowersCount |-> users[u].followers_count,
     FolloweesCount |-> users[u].followees_count,
     Me |-> uid # NoAuth /\ uid = u,
     Following |-> uid # NoAuth /\ <<uid, u>> \in follows,
     Followeed |-> uid # NoAuth /\ <<u, uid>> \in follows]

\* the UserProfile made of row u for the caller uid: u.Me = auth && uid ==
\* u.ID; if !u.Me { u.ID = 0; u.Email = "" }
Profile(uid, u) ==
    LET me == uid # NoAuth /\ uid = u
    IN  [ID |-> IF me THEN u ELSE 0,
         Email |-> IF me THEN users[u].email ELSE <<>>,
         Username |-> users[u].username,
         FollowersCount |-> users[u].followers_count,
         FolloweesCount |-> users[u].followees_count,
         Me |-> me,
         Following |-> uid # NoAuth /\ <<uid, u>> \in follows,
         Followeed |-> uid # NoAuth /\ <<u, uid>> \in follows]

Profiles(uid) == [u \in DOMAIN users |-> Profile(uid, u)]

\* (SELECT id FROM users WHERE username = @username): no row gives NULL, and
\* no row of the listing matches NULL
IdsNamed(username) == {u \in DOMAIN users : users[u].username = username}

\* User(ctx, username)
User(uid, username) ==
    LET un == TrimSpace(username) IN
    IF ~ reUsername(un)
    THEN Listing("User", uid, un, 0, 0, 0, <<>>, EmptyFn, 1, ErrInvalidUsername)
    ELSE IF IdsNamed(un) = {}
    THEN Listing("User", uid, un, 0, 0, 0, <<>>, EmptyFn, 1, ErrUserNotFound)
    ELSE Listing("User", uid, un, 0, 0, 0, ByUsername(IdsNamed(un)),
                 Profiles(uid), 1, Nil)

CallUserFrom(uids, usernames) ==
    \E uid \in uids, username \in usernames : User(uid, username)

\* Users(ctx, search, first, after)
Users(uid, search, first, after) ==
    LET n  == normalizePageSize(first)
        se == TrimSpace(search)
        af == TrimSpace(after)
        ids == {u \in DOMAIN users :
                   /\ se = <<>> \/ LikeSearch(users[u].username, se)
                   /\ af = <<>> \/ StrLess(af, users[u].username)}
    IN  ListingOf("Users", uid, se, 0, first, 0,
                  ContinuesAfter("Users", uid, se, first, af), af = <<>>,
                  ByUsername(ids), Profiles(uid), n, Nil)

CallUsersFrom(uids, sizes) ==
    \E uid \in uids, search \in SearchInputs, first \in sizes,
       after \in AfterInputs : Users(uid, search, first, after)

\* the join of Followers made on the other column of follows
FollowersJoinFollowee(u, v) == <<v, u>> \in follows

\* FROM follows INNER JOIN users ON follows.follower_id = users.id
\* WHERE follows.followee_id = v: the users row u is joined to an edge to v
FollowersJoin(u, v) == <<u, v>> \in follows

\* Followers(ctx, username, first, after)
Followers(uid, username, first, after) ==
    LET n  == normalizePageSize(first)
        un == TrimSpace(username)
        af == TrimSpace(after)
        ids == {u \in DOMAIN users :
                   /\ \E v \in IdsNamed(un) : FollowersJoin(u, v)
                   /\ af = <<>> \/ StrLess(af, users[u].username)}
    IN  IF ~ reUsername(un)
        THEN Listing("Followers", uid, un, 0, first, 0, <<>>, EmptyFn, n,
                     ErrInvalidUsername)
        ELSE Listing("Followers", uid, un, 0, first, 0, ByUsername(ids),
                     Profiles(uid), n, Nil)

CallFollowersFrom(uids, sizes) ==
    \E uid \in uids, username \in ListUsernameInputs, first \in sizes,
       after \in AfterInputs : Followers(uid, username, first, after)

\* Followees(ctx, username, first, after)
Followees(uid, username, first, after) ==
    LET n  == normalizePageSize(first)
        un == TrimSpace(username)
        af == TrimSpace(after)
        ids == {u \in DOMAIN users :
                   /\ \E v \in IdsNamed(un) : <<v, u>> \in follows
                   /\ af = <<>> \/ StrLess(af, users[u].username)}
    IN  IF ~ reUsername(un)
        THEN Listing("Followees", uid, un, 0, first, 0, <<>>, EmptyFn, n,
                     ErrInvalidUsername)
        ELSE Listing("Followees", uid, un, 0, first, 0, ByUsername(ids),
                     Profiles(uid), n, Nil)

CallFolloweesFrom(uids, sizes) ==
    \E uid \in uids, username \in ListUsernameInputs, first \in sizes,
       after \in AfterInputs : Followees(uid, username, first, after)

\* the before of a call that goes on with the paging of the last call
Cursor(op) ==
    IF listed.op = op /\ listed.rows # <<>>
    THEN {listed.rows[Len(listed.rows)]} ELSE {}

\* p.user_id = @uid AS mine, pl.user_id IS NOT NULL AS liked, with
\* LEFT JOIN post_likes pl ON pl.user_id = p.user_id AND pl.post_id = p.id;
\* an unauthenticated caller gets neither column
PostItem(uid, q) ==
    [ID |-> q,
     Mine |-> uid # NoAuth /\ posts[q].user_id = uid,
     Liked |-> uid # NoAuth /\ <<posts[q].user_id, q>> \in post_likes]

PostItems(uid) == [q \in DOMAIN posts |-> PostItem(uid, q)]

PostsCreatedAt == [q \in DOMAIN posts |-> posts[q].created_at]

\* Posts(ctx, username, last, before)
Posts(uid, username, lastN, before) ==
    LET un == TrimSpace(username)
        n  == normalizePageSize(lastN)
        ids == {q \in DOMAIN posts :
                   /\ posts[q].user_id \in IdsNamed(un)
                   /\ before = 0 \/ q < before}
    IN  IF ~ reUsername(un)
        THEN Listing("Posts", uid, un, 0, lastN, before, <<>>, EmptyFn, n,
                     ErrInvalidUsername)
        ELSE \E rows \in OrdersByCreatedAtDesc(ids, PostsCreatedAt) :
                Listing("Posts", uid, un, 0, lastN, before, rows,
                        PostItems(uid), n, Nil)

CallPostsFrom(uids, sizes, befores) ==
    \E uid \in uids, username \in ListUsernameInputs, lastN \in sizes,
       before \in befores :
       Posts(uid, username, lastN, before)

\* Post(ctx, postID)
Post(uid, postID) ==
    IF postID \notin DOMAIN posts \/ posts[postID].user_id \notin DOMAIN users
    THEN Listing("Post", uid, <<>>, postID, 0, 0, <<>>, EmptyFn, 1,
                 ErrPostNotFound)
    ELSE Listing("Post", uid, <<>>, postID, 0, 0, <<postID>>, PostItems(uid),
                 1, Nil)

CallPostFrom(uids) ==
    \E uid \in uids, postID \in PostIdInputs : Post(uid, postID)

\* c.user_id = @uid as mine, cl.user_id IS NOT NULL AS likes, with
\* LEFT JOIN comment_likes cl ON cl.comment_id = c.id AND cl.user_id = @uid
CommentItem(uid, c) ==
    [ID |-> c,
     Mine |-> uid # NoAuth /\ comments[c].user_id = uid,
     Liked |-> uid # NoAuth /\ <<uid, c>> \in comment_likes]

CommentItems(uid) == [c \in DOMAIN comments |-> CommentItem(uid, c)]

CommentsCreatedAt == [c \in DOMAIN comments |-> comments[c].created_at]

\* Comments(ctx, postID, last, before)
Comments(uid, postID, lastN, before) ==
    LET n  == normalizePageSize(lastN)
        ids == {c \in DOMAIN comments :
                   /\ comments[c].post_id = postID
                   /\ comments[c].user_id \in DOMAIN users
                   /\ before = 0 \/ c < before}
    IN  \E rows \in OrdersByCreatedAtDesc(ids, CommentsCreatedAt) :
           Listing("Comments", uid, <<>>, postID, lastN, before, rows,
                   CommentItems(uid), n, Nil)

CallCommentsFrom(uids, sizes, befores) ==
    \E uid \in uids, postID \in PostIdInputs, lastN \in sizes,
       before \in befores :
       Comments(uid, postID, lastN, before)

\* the timeline row of id i
TimelineRow(i) == CHOOSE t \in timeline : t.id = i

\* the created_at of the post of each timeline row
TimelineCreatedAt ==
    [i \in {t.id : t \in timeline} |-> posts[TimelineRow(i).post_id].created_at]

\* u.AvatarURL when nothing was assigned to it
NoAvatarURL == <<"nil">>

\* s.origin + "/img/avatars/" + avatar.String
AvatarURLOf(avatar) == <<"/","i","m","g","/","a","v","a","t","a","r","s","/">> \o avatar

\* the users row joined to timeline row i: INNER JOIN users u ON p.user_id = u.id
TimelineAuthor(i) == users[posts[TimelineRow(i).post_id].user_id]

\* u.AvatarURL once the first k rows of page are scanned: var u User is
\* declared before the loop, and a row with a NULL avatar assigns nothing
RECURSIVE ScannedAvatarURL(_, _)
ScannedAvatarURL(page, k) ==
    IF k = 0 THEN NoAvatarURL
    ELSE IF TimelineAuthor(page[k]).avatar # NullString
    THEN AvatarURLOf(TimelineAuthor(page[k]).avatar)
    ELSE ScannedAvatarURL(page, k - 1)

\* the TimelineItem of each row of page, with the mine and liked of its post;
\* ti.Post.User = &u: every item points at the one u, which holds what the
\* scan of the last row left in it
TimelineItems(uid, page) ==
    [i \in {page[k] : k \in DOMAIN page} |->
        [ID |-> i,
         Mine |-> PostItem(uid, TimelineRow(i).post_id).Mine,
         Liked |-> PostItem(uid, TimelineRow(i).post_id).Liked,
         Username |-> TimelineAuthor(page[Len(page)]).username,
         AvatarURL |-> ScannedAvatarURL(page, Len(page))]]

\* Timeline(ctx, last, before)
Timeline(uid, lastN, before) ==
    LET n  == normalizePageSize(lastN)
        ids == {t.id : t \in {t \in timeline :
                   /\ t.user_id = uid
                   /\ t.post_id \in DOMAIN posts
                   /\ posts[t.post_id].user_id \in DOMAIN users
                   /\ before = 0 \/ t.id < before}}
    IN  IF Unauthenticated(uid)
        THEN Listing("Timeline", uid, <<>>, 0, lastN, before, <<>>, EmptyFn,
                     lastN, ErrUnauthenticated)
        ELSE \E rows \in OrdersByCreatedAtDesc(ids, TimelineCreatedAt) :
                Listing("Timeline", uid, <<>>, 0, lastN, before, rows,
                        TimelineItems(uid, Limit(rows, n)), n, Nil)

CallTimelineFrom(uids, sizes, befores) ==
    \E uid \in uids, lastN \in sizes,
       before \in befores :
       Timeline(uid, lastN, before)

\* the letters that name the users made after the seeded ones
NameLetters == <<"a","b","c","d","e","f","g","h","i","j","k","l","m",
                 "n","o","p","q","r","s","t","u","v","w","x","y","z">>

\* a store after n - 3 CreateUser calls, n - 1 CreatePost calls by user 1,
\* n - 1 CreateComment calls on post 1, and then ToggleFollow calls that made
\* user 1 and every other user follow each other
ListedUsers(n) ==
    [u \in 1..n |->
        IF u \in DOMAIN SeedUsers
        THEN [SeedUsers[u] EXCEPT
                 !.followers_count = IF u = 1 THEN n - 1 ELSE 1,
                 !.followees_count = IF u = 1 THEN n - 1 ELSE 1]
        ELSE [email |-> <<"u", NameLetters[u]>> \o exampleOrg,
              username |-> <<"u", NameLetters[u]>>,
              followers_count |-> 1, followees_count |-> 1,
              avatar |-> NullString]]

\* the now() of the transactions that made rows 1..n. "apart": the calls ran
\* one after the other. "paired": two calls at a time began at one reading of
\* the clock. "crossed": of two calls at a time, the one that began first
\* drew its id last
Clocks == {"apart", "paired", "crossed"}

CreatedAt(clock, i) ==
    IF clock = "paired" THEN (i + 1) \div 2
    ELSE IF clock = "crossed" THEN (IF i % 2 = 1 THEN i + 1 ELSE i - 1)
    ELSE i

\* likes of post 1: none, its author's, another user's. Each like of a post
\* of user 1 sets the likes_count of every post of user 1
LikesInputs == {{}, {<<1, 1>>}, {<<2, 1>>}}

ListedPosts(n, clock, likes) ==
    [q \in 1..n |->
        [user_id |-> 1,
         content |-> IF q \in DOMAIN SeedPosts THEN SeedPosts[q].content
                     ELSE <<"h", "i">>,
         spoiler_of |-> <<"nil">>, nsfw |-> FALSE,
         likes_count |-> Cardinality(likes),
         comments_count |-> IF q = 1 THEN n ELSE 0,
         created_at |-> CreatedAt(clock, q)]]

ListedComments(n, clock) ==
    [c \in 1..n |->
        [user_id |-> IF c \in DOMAIN SeedComments THEN 1 ELSE 2,
         post_id |-> 1,
         content |-> IF c \in DOMAIN SeedComments THEN SeedComments[c].content
                     ELSE <<"h", "i">>,
         likes_count |-> 0,
         created_at |-> CreatedAt(clock, c)]]

\* the sizes of the stores listed: the seeded one, one of 10 rows, a larger one
ListedSizes == {3, MaxPageSize, MaxListed}

ListInitOn(sizes, clocks, likeSets) ==
    /\ \E n \in sizes, clock \in clocks, likes \in likeSets :
          /\ users = ListedUsers(n)
          /\ follows = {<<u, 1>> : u \in 2..n} \cup {<<1, u>> : u \in 2..n}
          /\ posts = ListedPosts(n, clock, likes)
          /\ timeline = {[id |-> q, user_id |-> 1, post_id |-> q] : q \in 1..n}
          /\ comments = ListedComments(n, clock)
          /\ post_likes = likes
          /\ userSeq = n
          /\ postSeq = n
          /\ timelineSeq = n
          /\ commentSeq = n
    /\ comment_likes = {}
    /\ listed = NoListed
    /\ pc = [p \in Procs |-> "idle"]
    /\ loc = [p \in Procs |-> NoLoc]
    /\ tx = [p \in Procs |-> NoTx]
    /\ resp = [p \in Procs |-> NoResp]
    /\ tasks = {}
    /\ pre = [p \in Procs |-> NoPre]
    /\ last = NoLast
    /\ steady = EmptyFn

ListInit == ListInitOn(ListedSizes, {"apart"}, {{}})

CallUsers     == CallUsersFrom({NoAuth}, PageSizeInputs)
CallFollowers == CallFollowersFrom({NoAuth}, PageSizeInputs)
CallFollowees == CallFolloweesFrom({NoAuth}, PageSizeInputs)
CallPosts     == CallPostsFrom({NoAuth}, PageSizeInputs, BeforeInputs)
CallComments  == CallCommentsFrom({NoAuth}, PageSizeInputs, BeforeInputs)
CallTimeline  == CallTimelineFrom(CallerInputs, PageSizeInputs, BeforeInputs)

\* listing calls on such a store
ListNext ==
    \/ CallUsers
    \/ CallFollowers
    \/ CallFollowees
    \/ CallPosts
    \/ CallComments
    \/ CallTimeline

ListSpec == ListInit /\ [][ListNext]_vars

\* the sizes of the pages of a paging
PagingSizes == {1, 2}
\* the rows of the store paged through
PagedRows == 4

FeedInit == ListInitOn({PagedRows}, Clocks, LikesInputs)

\* the content listings and Post, by any caller, page after page, on stores
\* whose rows were made by calls that ran at once
FeedNext ==
    \/ CallPostsFrom(CallerInputs, PagingSizes, {0} \cup Cursor("Posts"))
    \/ CallPostFrom(CallerInputs)
    \/ CallCommentsFrom(CallerInputs, PagingSizes, {0} \cup Cursor("Comments"))
    \/ CallTimelineFrom(CallerInputs, PagingSizes, {0} \cup Cursor("Timeline"))

FeedSpec == FeedInit /\ [][FeedNext]_vars

\* the avatar a user may have uploaded
png == <<"1",".","p","n","g">>

\* the authors of posts 1..3, user 1 having written the seeded one
AuthorInputs == {<<1, 2, 3>>, <<1, 2, 2>>, <<1, 3, 1>>, <<1, 1, 2>>}

\* a store after user 1 followed users 2 and 3, CreatePost calls by the
\* authors in turn with their fan-out, and avatar uploads by some users
MixedInit ==
    /\ SocInit
    /\ \E hasAvatar \in SUBSET (DOMAIN SeedUsers), author \in AuthorInputs :
          /\ users = [u \in DOMAIN SeedUsers |->
                        [UsersOf({<<1, 2>>, <<1, 3>>})[u] EXCEPT
                            !.avatar = IF u \in hasAvatar THEN png
                                       ELSE NullString]]
          /\ posts = [q \in 1..3 |->
                        [SeedPosts[1] EXCEPT
                            !.user_id = author[q],
                            !.comments_count = IF q = 1 THEN 1 ELSE 0,
                            !.created_at = q - 1]]
          /\ timeline = {[id |-> 2 * q - 1, user_id |-> author[q], post_id |-> q] :
                            q \in 1..3}
                        \cup {[id |-> 2 * q, user_id |-> 1, post_id |-> q] :
                                 q \in {x \in 1..3 : author[x] # 1}}
    /\ follows = {<<1, 2>>, <<1, 3>>}
    /\ userSeq = 3
    /\ postSeq = 3
    /\ timelineSeq = 6
    /\ pc = [p \in Procs |-> "idle"]
    /\ loc = [p \in Procs |-> NoLoc]
    /\ tx = [p \in Procs |-> NoTx]
    /\ resp = [p \in Procs |-> NoResp]
    /\ tasks = {}
    /\ pre = [p \in Procs |-> NoPre]
    /\ last = NoLast
    /\ steady = EmptyFn

\* Timeline, page after page, by a caller who follows the other authors
MixedNext ==
    CallTimelineFrom({1, 2}, {1, 2, 3}, {0} \cup Cursor("Timeline"))

MixedSpec == MixedInit /\ [][MixedNext]_vars

\* ToggleFollow calls served one at a time, and the relationship listings
\* asked for between them; the users listed
EdgeListed == {mladen, <<" ">> \o milutin}

EdgeListNext ==
    \/ \E p \in {1} : CallToggleFollowBy(p, {2, 3}) \/ ToggleFollowRun(p)
    \/ /\ pc[1] = "idle"
       /\ \E un \in EdgeListed, first \in {0, 1}, after \in AfterInputs :
             \/ Followers(NoAuth, un, first, after)
             \/ Followees(NoAuth, un, first, after)

EdgeListSpec == Init /\ [][EdgeListNext]_vars

\* the profile lookups and listings, by any caller
ProfileInit == ListInitOn({3, 4}, {"apart"}, {{}})

ProfileNext ==
    \/ CallUserFrom(CallerInputs, ListUsernameInputs)
    \/ CallUsersFrom(CallerInputs, {0, 2})
    \/ CallFollowersFrom(CallerInputs, {0, 2})
    \/ CallFolloweesFrom(CallerInputs, {0, 2})

ProfileSpec == ProfileInit /\ [][ProfileNext]_vars

\* every operation that asks for a caller identity, called without one by
\* handlers at once, on the stores that calls run one at a time leave behind
AuthNext ==
    \/ \E p \in Procs :
          \/ CallToggleFollowBy(p, {NoAuth})
          \/ CallCreatePostBy(p, {NoAuth}, ContentInputs, SpoilerInputs)
          \/ CallTogglePostLikeBy(p, {NoAuth})
          \/ CallCreateCommentBy(p, {NoAuth}, ContentInputs)
          \/ CallToggleCommentLikeBy(p, {NoAuth})
    \/ CallTimelineFrom({NoAuth}, PageSizeInputs, BeforeInputs)

AuthSpec == GraphInit /\ [][AuthNext]_vars

\* the usernames looked up: one that CreateUser may make, a seeded one, a
\* malformed one
LookupInputs == {ana, <<" ">> \o milutin, <<"4">> \o ana}

\* CreateUser calls served by handlers at once, and profile lookups
SignupNext ==
    \/ \E p \in Procs : CallCreateUser(p) \/ CreateUserInsert(p)
    \/ CallUserFrom({NoAuth}, LookupInputs)

SignupSpec == Init /\ [][SignupNext]_vars

\* the names of the users created while a client pages: one sorts before the
\* seeded usernames, one after them
nada == <<"n","a","d","a">>
PagedNames == {ana, nada}

\* the after of a call that goes on with the paging of the last Users call
CursorAfter == {users[r].username : r \in Cursor("Users")}

\* a client pages through Users, forward from the start, while CreateUser
\* calls are served
PagingNext ==
    \/ \E p \in {1} :
          \/ \E un \in PagedNames : CreateUserCall(p, un \o exampleOrg, un)
          \/ CreateUserInsert(p)
    \/ \E search \in {<<>>, <<"m">>, <<"a">>}, first \in PagingSizes,
          after \in {<<>>} \cup CursorAfter :
            Users(NoAuth, search, first, after)

PagingSpec == Init /\ [][PagingNext]_vars

\* ---------------------------------------------------------- content limits
\* the trimmed content has between 1 and 480 scalar values
ContentInRange(c) == Len(TrimSpace(c)) >= 1 /\ Len(TrimSpace(c)) <= 480

CommentLabels == {"cc_insert", "cc_count", "cc_commit"}

\* C16: CreateComment with valid content on a post id that does not exist
\* fails with ErrPostNotFound, inserts no comment row and changes no post's
\* comments_count
C16_Step ==
    \A p \in Procs :
       /\ \A uid \in DOMAIN users, q \in PostIdInputs \ DOMAIN posts,
             c \in LongContentInputs :
             (ContentInRange(c) /\ CreateCommentCall(p, uid, q, c))
                => ~ (pc'[p] = "idle" /\ resp'[p].err # ErrPostNotFound)
       /\ (/\ pc[p] \in CommentLabels
           /\ loc[p].postID \notin DOMAIN posts
           /\ pc'[p] = "idle")
             => /\ resp'[p].err = ErrPostNotFound
                /\ comments' = comments
                /\ \A q \in DOMAIN posts :
                      posts'[q].comments_count = posts[q].comments_count

C16_CommentOnMissingPost == [][C16_Step]_vars

PostLabels == {"cp_post", "cp_timeline", "cp_commit", "cp_return"}

\* C17: for an authenticated caller and no spoiler label, CreatePost succeeds
\* for every content whose trimmed length is between 1 and 480 scalar values
\* inclusive, and fails with ErrInvalidContent, creating no post and no
\* timeline entry, when the trimmed content is empty (whitespace-only input
\* included) or has 481 or more scalar values
C17_Step ==
    \A p \in Procs :
       /\ \A uid \in DOMAIN users, c \in LongContentInputs :
             CreatePostCall(p, uid, c, NoSpoiler, FALSE)
                => IF ContentInRange(c)
                   THEN /\ pc'[p] = "cp_post"
                        /\ loc'[p].content = TrimSpace(c)
                   ELSE /\ pc'[p] = "idle"
                        /\ resp'[p].op = "CreatePost"
                        /\ resp'[p].err = ErrInvalidContent
                        /\ posts' = posts
                        /\ timeline' = timeline
       /\ (/\ pc[p] \in PostLabels
           /\ loc[p].spoilerOf = NoSpoiler
           /\ pc'[p] = "idle")
             => /\ resp'[p].err = Nil
                /\ resp'[p].postID \in DOMAIN posts'
                /\ posts'[resp'[p].postID].content = loc[p].content
                /\ posts'[resp'[p].postID].user_id = loc[p].uid

C17_PostContentLimits == [][C17_Step]_vars

\* a post of exactly 480 scalar values was created and one of 1 was too
C17_Witness ==
    /\ resp[1].op = "CreatePost"
    /\ resp[1].err = Nil
    /\ resp[1].postID \in NewPostIds
    /\ Len(posts[resp[1].postID].content) = 480
    /\ posts[resp[1].postID].spoiler_of = NoSpoiler

\* C18: for valid content and a spoiler label that is present, CreatePost
\* fails with ErrInvalidSpoiler exactly when the trimmed spoiler label is
\* empty or longer than 64 characters, whatever the length of the content
C18_Step ==
    \A p \in Procs :
       \A uid \in DOMAIN users, c \in LongContentInputs,
          sp \in LongSpoilerInputs \ {NoSpoiler} :
          (ContentInRange(c) /\ CreatePostCall(p, uid, c, sp, FALSE))
             => IF Len(TrimSpace(sp)) = 0 \/ Len(TrimSpace(sp)) > 64
                THEN /\ pc'[p] = "idle"
                     /\ resp'[p].err = ErrInvalidSpoiler
                     /\ posts' = posts
                ELSE pc'[p] = "cp_post"

C18_SpoilerLimits == [][C18_Step]_vars

\* C19: for an existing post CreateComment accepts every content whose trimmed
\* length is between 1 and 480 characters inclusive and rejects with
\* ErrInvalidContent every content whose trimmed length is 0 or more than 480
C19_Step ==
    \A p \in Procs :
       /\ \A uid \in DOMAIN users, q \in DOMAIN posts,
             c \in LongContentInputs :
             CreateCommentCall(p, uid, q, c)
                => IF ContentInRange(c)
                   THEN pc'[p] = "cc_insert"
                   ELSE /\ pc'[p] = "idle"
                        /\ resp'[p].err = ErrInvalidContent
                        /\ comments' = comments
       /\ (/\ pc[p] \in CommentLabels
           /\ loc[p].postID \in DOMAIN posts
           /\ pc'[p] = "idle")
             => resp'[p].err = Nil

C19_CommentContentLimits == [][C19_Step]_vars

\* C20: every listing uses a page size of 10 when the size asked for is 0,
\* negative or unset, of that size when it is between 1 and 10, and of 10 when
\* it is greater; it returns as many rows as match, up to that size, never
\* more; Users returns exactly 10 rows for size 0 when at least 10 users match
C20_EffectiveSize ==
    IF listed.size <= 0 THEN 10
    ELSE IF listed.size > 10 THEN 10
    ELSE listed.size

C20_PageSize ==
    (listed.op # "none" /\ listed.err = Nil)
        => /\ Len(listed.rows) <= C20_EffectiveSize
           /\ listed.matched >= C20_EffectiveSize
                 => Len(listed.rows) = C20_EffectiveSize
           /\ listed.matched < C20_EffectiveSize
                 => Len(listed.rows) = listed.matched

\* Users with size 0 found more than 10 users and returned 10 of them
C20_Witness ==
    /\ listed.op = "Users"
    /\ listed.err = Nil
    /\ listed.size = 0
    /\ listed.matched > 10
    /\ Len(listed.rows) = 10

\* ------------------------------------------------------------ listing order
\* sub occurs in s
Contains(s, sub) ==
    \E i \in 0..(Len(s) - Len(sub)) : SubSeq(s, i + 1, i + Len(sub)) = sub

\* the elements of a sequence
Range(f) == {f[i] : i \in DOMAIN f}

\* C21: Users(search, first, after) returns, in ascending username order, the
\* smallest `first` (after page-size normalisation) usernames among the users
\* whose username contains search (all users when search is empty) and is
\* strictly greater than after (no lower bound when after is empty); the user
\* named after is never returned. search and after are taken trimmed.
C21_Step ==
    \A search \in SearchInputs, first \in PageSizeInputs, after \in AfterInputs :
       Users(NoAuth, search, first, after)
          => LET se    == TrimSpace(search)
                 af    == TrimSpace(after)
                 match == {u \in DOMAIN users :
                             /\ Contains(users[u].username, se)
                             /\ af = <<>> \/ StrLess(af, users[u].username)}
                 size  == IF first <= 0 \/ first > 10 THEN 10 ELSE first
                 rows  == listed'.rows
             IN  /\ listed'.err = Nil
                 /\ Range(rows) \subseteq match
                 /\ \A i, j \in DOMAIN rows :
                       i < j => StrLess(users[rows[i]].username,
                                        users[rows[j]].username)
                 /\ Len(rows) = IF Cardinality(match) < size
                                THEN Cardinality(match) ELSE size
                 /\ \A u \in match \ Range(rows), i \in DOMAIN rows :
                       StrLess(users[rows[i]].username, users[u].username)
                 /\ \A i \in DOMAIN rows : users[rows[i]].username # af

C21_UsersPage == [][C21_Step]_vars

\* every row of the listing that the last call paged through
C22_All ==
    IF listed.op = "Posts"
    THEN {q \in DOMAIN posts : posts[q].user_id \in IdsNamed(listed.name)}
    ELSE IF listed.op = "Comments"
    THEN {c \in DOMAIN comments : comments[c].post_id = listed.target}
    ELSE {t.id : t \in {t \in timeline : t.user_id = listed.uid}}

C22_CreatedAt ==
    IF listed.op = "Posts" THEN PostsCreatedAt
    ELSE IF listed.op = "Comments" THEN CommentsCreatedAt
    ELSE TimelineCreatedAt

\* C22: backward paging of a content listing (Posts, Comments, Timeline) with
\* no concurrent writes, begun without a cursor and going on with before = the
\* id of the last item of the page before, returns every item of the listing
\* exactly once and latest first overall, also when created_at values are equal
C22_BackwardPaging ==
    (listed.op \in ContentListings /\ listed.err = Nil /\ listed.paging)
       => /\ \A i, j \in DOMAIN listed.seen :
                i < j => /\ listed.seen[i] # listed.seen[j]
                         /\ C22_CreatedAt[listed.seen[i]]
                               >= C22_CreatedAt[listed.seen[j]]
          /\ Len(listed.rows) < normalizePageSize(listed.size)
                => Range(listed.seen) = C22_All

\* ------------------------------------------------------------ profiles
ProfileListings == {"User", "Users", "Followers", "Followees"}

\* C23: in every profile returned by User, Users, Followers or Followees, Me
\* is true exactly when the caller is authenticated and the row is the
\* caller's own user; whenever Me is false the returned id is 0 and the
\* returned email is empty
C23_NoLeak ==
    (listed.op \in ProfileListings /\ listed.err = Nil)
       => \A i \in DOMAIN listed.items :
             /\ listed.items[i].Me
                   <=> (listed.uid # NoAuth /\ listed.rows[i] = listed.uid)
             /\ ~ listed.items[i].Me
                   => /\ listed.items[i].ID = 0
                      /\ listed.items[i].Email = <<>>
             /\ listed.items[i].Me
                   => /\ listed.items[i].ID = listed.uid
                      /\ listed.items[i].Email = users[listed.uid].email

\* an authenticated caller listed users: its own row and the row of another
C23_Witness ==
    /\ listed.op = "Users"
    /\ listed.err = Nil
    /\ listed.uid = 2
    /\ \E i, j \in DOMAIN listed.items :
          /\ listed.items[i].Me
          /\ listed.items[i].ID = 2
          /\ ~ listed.items[j].Me
          /\ listed.items[j].ID = 0
          /\ listed.rows[j] = 1

\* ------------------------------------------------------------ mine and liked
\* the post that row i of the last listing is about
C24_PostOf(i) ==
    IF listed.op = "Timeline" THEN TimelineRow(listed.rows[i]).post_id
    ELSE listed.rows[i]

\* C24: for an authenticated caller, the liked flag of every post returned by
\* Posts, Post and Timeline is true exactly when a post_likes edge (caller,
\* post) exists, and the mine flag is true exactly when the caller authored
\* the post, whether or not the post's author likes their own post
C24_MineAndLiked ==
    (/\ listed.op \in {"Posts", "Post", "Timeline"}
     /\ listed.err = Nil
     /\ listed.uid # NoAuth)
       => \A i \in DOMAIN listed.items :
             /\ listed.items[i].Liked
                   <=> <<listed.uid, C24_PostOf(i)>> \in post_likes
             /\ listed.items[i].Mine
                   <=> posts[C24_PostOf(i)].user_id = listed.uid

\* ------------------------------------------------------------ registration
\* no user has this email, no user has this username
Free(email, username) ==
    \A u \in DOMAIN users :
       users[u].email # email /\ users[u].username # username

\* C25: for every email and username that pass format validation and are not
\* yet taken, CreateUser succeeds and a following unauthenticated
\* User(username) lookup returns followers_count 0, followees_count 0, and
\* Me, Following and Followeed all false
C25_Step ==
    /\ \A p \in Procs, em \in EmailInputs, un \in UsernameInputs :
          (/\ reEmail(TrimSpace(em))
           /\ reUsername(TrimSpace(un))
           /\ CreateUserCall(p, em, un))
             => pc'[p] = "cu_insert"
    /\ \A p \in Procs :
          (/\ pc[p] = "cu_insert"
           /\ pc'[p] = "idle"
           /\ Free(loc[p].email, loc[p].username))
             => /\ resp'[p].err = Nil
                /\ \E u \in DOMAIN users' \ DOMAIN users :
                      /\ users'[u].email = loc[p].email
                      /\ users'[u].username = loc[p].username
    /\ \A p \in Procs :
          (/\ resp[p].op = "CreateUser"
           /\ resp[p].err = Nil
           /\ listed'.op = "User"
           /\ User(NoAuth, resp[p].username))
             => /\ listed'.err = Nil
                /\ Len(listed'.items) = 1
                /\ listed'.items[1].Username = resp[p].username
                /\ listed'.items[1].FollowersCount = 0
                /\ listed'.items[1].FolloweesCount = 0
                /\ ~ listed'.items[1].Me
                /\ ~ listed'.items[1].Following
                /\ ~ listed'.items[1].Followeed

C25_SignupThenLookup == [][C25_Step]_vars

\* the profile of a user made by CreateUser was looked up without a caller
C25_Witness ==
    /\ listed.op = "User"
    /\ listed.uid = NoAuth
    /\ listed.err = Nil
    /\ listed.rows[1] \notin DOMAIN SeedUsers
    /\ listed.items[1].FollowersCount = 0
    /\ \E p \in Procs : /\ resp[p].op = "CreateUser"
                        /\ resp[p].err = Nil
                        /\ resp[p].username = listed.items[1].Username

\* the CreateUser call of p returns err and has added no row
C26_Refused(p, err) ==
    /\ pc'[p] = "idle"
    /\ resp'[p].op = "CreateUser"
    /\ resp'[p].err = err
    /\ users' = users

\* C26: no reachable state has two users with the same email or the same
\* username, also when CreateUser calls run concurrently: a CreateUser whose
\* email is taken fails with ErrEmailTaken, one whose email is free but whose
\* username is taken fails with ErrUsernameTaken, and in both cases no user
\* row is added; a malformed email or username fails with ErrInvalidEmail or
\* ErrInvalidUsername before any row is written
C26_Unique ==
    \A u, v \in DOMAIN users :
       u # v => /\ users[u].email # users[v].email
                /\ users[u].username # users[v].username

C26_Step ==
    /\ \A p \in Procs, em \in EmailInputs, un \in UsernameInputs :
          CreateUserCall(p, em, un)
             => IF ~ reEmail(TrimSpace(em))
                THEN C26_Refused(p, ErrInvalidEmail)
                ELSE IF ~ reUsername(TrimSpace(un))
                THEN C26_Refused(p, ErrInvalidUsername)
                ELSE pc'[p] = "cu_insert" /\ users' = users
    /\ \A p \in Procs :
          (pc[p] = "cu_insert" /\ pc'[p] = "idle")
             => IF \E u \in DOMAIN users : users[u].email = loc[p].email
                THEN C26_Refused(p, ErrEmailTaken)
                ELSE IF \E u \in DOMAIN users :
                           users[u].username = loc[p].username
                THEN C26_Refused(p, ErrUsernameTaken)
                ELSE resp'[p].err = Nil

C26_UniqueUsers == []C26_Unique /\ [][C26_Step]_vars

\* two CreateUser calls with one email ran at once: one made the user, the
\* other was refused
C26_Witness ==
    /\ resp[1].op = "CreateUser"
    /\ resp[1].err = Nil
    /\ resp[2].op = "CreateUser"
    /\ resp[2].err = ErrEmailTaken
    /\ userSeq = 5

\* ------------------------------------------------------------ no caller
\* C27: ToggleFollow, CreatePost, TogglePostLike, CreateComment,
\* ToggleCommentLike and Timeline, called without an authenticated caller
\* identity, return ErrUnauthenticated and change no stored state: no call
\* goes on to a statement, no edge, row or counter differs afterwards
C27_Step ==
    /\ \A p \in Procs :
          resp'[p] # resp[p]
             => /\ resp'[p].uid = NoAuth
                /\ resp'[p].err = ErrUnauthenticated
    /\ listed' # listed
          => /\ listed'.op = "Timeline"
             /\ listed'.err = ErrUnauthenticated
             /\ listed'.rows = <<>>
    /\ pc' = pc
    /\ tx' = tx
    /\ tasks' = tasks
    /\ dbvars' = dbvars

C27_Unauthenticated == [][C27_Step]_vars

\* on a store with follow edges, CreateComment and ToggleFollow were called
\* without a caller by two handlers, and Timeline too
C27_Witness ==
    /\ follows # {}
    /\ resp[1].op = "CreateComment"
    /\ resp[1].err = ErrUnauthenticated
    /\ resp[2].op = "ToggleFollow"
    /\ resp[2].err = ErrUnauthenticated
    /\ listed.op = "Timeline"
    /\ listed.err = ErrUnauthenticated

\* ------------------------------------------------------------ returned item
\* C28: the TimelineItem a successful CreatePost returns describes the
\* author's own entry under every interleaving with the fan-out task: its id
\* is the author's timeline row for the new post, UserID is the author and
\* Post.Mine is true
C28_ReturnedItem ==
    \A p \in Procs :
        (resp[p].op = "CreatePost" /\ resp[p].err = Nil)
           => /\ resp[p].tiUserID = resp[p].uid
              /\ resp[p].mine
              /\ \E r \in timeline : /\ r.id = resp[p].tiID
                                     /\ r.user_id = resp[p].uid
                                     /\ r.post_id = resp[p].postID

\* ------------------------------------------------------------ lock order
\* calls p and q toggle each other's caller: A toggles B while B toggles A
Opposite(p, q) ==
    /\ p # q
    /\ loc[p].op = "ToggleFollow"
    /\ loc[q].op = "ToggleFollow"
    /\ loc[p].followeeID # 0
    /\ loc[p].uid = loc[q].followeeID
    /\ loc[q].uid = loc[p].followeeID

\* C29: two ToggleFollow calls in opposite directions never wait on each
\* other: the order in which each transaction locks the two users rows for
\* its counter updates produces no wait cycle
C29_NoWaitCycle ==
    \A p, q \in Procs :
        Opposite(p, q) => ~(q \in WaitsFor(p) /\ p \in WaitsFor(q))

\* ------------------------------------------------------------ one target
\* no handler but p and q has served a call
OnlyCalls(p, q) == \A r \in Procs \ {p, q} : Fresh(r)

\* calls p and q, by different callers who did not follow it, insert an edge
\* to one target
SameTarget(p, q) ==
    /\ p # q
    /\ OnlyCalls(p, q)
    /\ pc[p] \in {"tf_edge", "tf_followees", "tf_followers", "tf_commit"}
    /\ pc[q] \in {"tf_edge", "tf_followees", "tf_followers", "tf_commit"}
    /\ loc[p].followeeID = loc[q].followeeID
    /\ loc[p].uid # loc[q].uid
    /\ ~loc[p].Following
    /\ ~loc[q].Following

\* both have returned nil, each now following the target
BothFollowed(p, q) ==
    /\ p # q
    /\ OnlyCalls(p, q)
    /\ resp[p].op = "ToggleFollow"
    /\ resp[q].op = "ToggleFollow"
    /\ resp[p].err = Nil
    /\ resp[q].err = Nil
    /\ resp[p].Following
    /\ resp[q].Following
    /\ resp[p].followeeID = resp[q].followeeID
    /\ resp[p].uid # resp[q].uid

\* the followers the target had before the two calls
FollowersBefore(p, q) ==
    Cardinality({e \in follows : e[2] = resp[p].followeeID}
                   \ {<<resp[p].uid, resp[p].followeeID>>,
                      <<resp[q].uid, resp[q].followeeID>>})

\* C30: two callers toggling follow on one target they did not follow, at
\* once and with no other call: neither call is failed by the store (no wait cycle, no edge in the
\* way of its INSERT), and once both have committed both edges exist, the
\* target's followers_count has grown by exactly 2, and the two calls were
\* answered with the two counts on the way
C30_BothCounted ==
    \A p, q \in Procs :
        /\ SameTarget(p, q)
              => /\ ~(q \in WaitsFor(p) /\ p \in WaitsFor(q))
                 /\ pc[p] = "tf_edge"
                       => <<loc[p].uid, loc[p].followeeID>> \notin follows
        /\ BothFollowed(p, q)
              => /\ <<resp[p].uid, resp[p].followeeID>> \in follows
                 /\ <<resp[q].uid, resp[q].followeeID>> \in follows
                 /\ users[resp[p].followeeID].followers_count
                       = FollowersBefore(p, q) + 2
                 /\ {resp[p].FollowersCount, resp[q].FollowersCount}
                       = {FollowersBefore(p, q) + 1, FollowersBefore(p, q) + 2}

\* both have committed, and the call that committed second began when the
\* target still had neither follower: the calls ran at once
C30_Witness ==
    /\ BothFollowed(1, 2)
    /\ last.followeeID = resp[1].followeeID
    /\ users[resp[1].followeeID].followers_count = last.followersBefore + 2

\* ------------------------------------------------------------ fan-out again
\* the owners of a timeline entry for post q in the table tl
OwnersOf(tl, q) == {r.user_id : r \in {x \in tl : x.post_id = q}}

\* C31: when fan-out runs for a post and some follower of the author already
\* has an entry for it, the run skips that follower and still gives an entry
\* to every other current follower; a second run adds no duplicate and loses
\* no delivery
C31_Step ==
    \A q \in NewPostIds :
        fanoutPost(TaskOf(q))
           => /\ FollowersOf(TaskOf(q).user_id) \subseteq OwnersOf(timeline', q)
              /\ timeline_unique(timeline', timeline')

C31_FanoutSkips == [][C31_Step]_vars

\* ------------------------------------------------------------ forward paging
\* the row the last page of the paging ended with, as a set
LastRow == IF listed.rows = <<>> THEN {} ELSE {listed.rows[Len(listed.rows)]}

\* the paging has come to its end: a page with fewer rows than asked for
PagedOut == Len(listed.rows) < normalizePageSize(listed.size)

\* C32: while a client pages forward through Users, each page asked for with
\* after = the last username of the page before, and CreateUser calls commit
\* in between: no user is returned twice, every user that existed before the
\* first page and is not beyond the cursor has been returned, and all of them
\* once the paging has come to its end
C32_StablePaging ==
    (listed.op = "Users" /\ listed.paging)
       => /\ \A i, j \in DOMAIN listed.seen :
                listed.seen[i] = listed.seen[j] => i = j
          /\ \A u \in listed.base :
                (\/ PagedOut
                 \/ \E l \in LastRow :
                       ~StrLess(users[l].username, users[u].username))
                   => u \in Range(listed.seen)

\* a paging of more than one page that has come to its end, during which a
\* user was created and returned
C32_Witness ==
    /\ listed.op = "Users"
    /\ listed.paging
    /\ PagedOut
    /\ Len(listed.seen) > Len(listed.rows)
    /\ Cardinality(listed.base) = 3
    /\ Range(listed.seen) \ listed.base # {}

\* ------------------------------------------------------------ entry owners
\* the author of the post that timeline row r refers to, after the step
AuthorOf(r) == posts'[r.post_id].user_id

\* C33: every timeline entry (owner, post) is the author's own or was given
\* by the fan-out of that post to a user who had a committed follow edge to
\* the author when the fan-out statement ran; a user who never followed the
\* author gets no entry for the author's post
C33_Step ==
    \A r \in timeline' \ timeline :
        \/ r.user_id = AuthorOf(r)
        \/ /\ <<r.user_id, AuthorOf(r)>> \in follows
           /\ \E q \in NewPostIds : q = r.post_id /\ fanoutPost(TaskOf(q))

C33_EntryOwners ==
    /\ \A r \in SeedTimeline : r.user_id = SeedPosts[r.post_id].user_id
    /\ [][C33_Step]_vars

\* a follower got the entry of a post, a user who does not follow the
\* author has none, and the author has its own
C33_Witness ==
    \E q \in DOMAIN posts : \E u, v \in DOMAIN users :
        /\ u # posts[q].user_id
        /\ v # posts[q].user_id
        /\ u \in OwnersOf(timeline, q)
        /\ posts[q].user_id \in OwnersOf(timeline, q)
        /\ v \notin OwnersOf(timeline, q)
        /\ <<u, posts[q].user_id>> \notin follows

\* ------------------------------------------------------------ item authors
\* C34: every item Timeline returns carries the username and the avatar of
\* the author of its own post: with posts of different authors on a page each
\* item names its own author, and an item whose author has no avatar shows
\* none
C34_ItemAuthors ==
    (listed.op = "Timeline" /\ listed.err = Nil)
       => \A k \in DOMAIN listed.items :
             /\ listed.items[k].Username
                   = TimelineAuthor(listed.rows[k]).username
             /\ listed.items[k].AvatarURL
                   = IF TimelineAuthor(listed.rows[k]).avatar = NullString
                     THEN NoAvatarURL
                     ELSE AvatarURLOf(TimelineAuthor(listed.rows[k]).avatar)

\* ------------------------------------------------------------ edge listings
\* the users with a committed follow edge to the user named un
EdgesToNamed(un) ==
    {u \in DOMAIN users : <<u, UserIDByUsername(TrimSpace(un))>> \in follows}

\* the users the user named un has a committed follow edge to
EdgesFromNamed(un) ==
    {u \in DOMAIN users : <<UserIDByUsername(TrimSpace(un)), u>> \in follows}

\* the last call served toggled the edge from a to b, nothing runs since
LastToggled(a, b) ==
    /\ pc[1] = "idle"
    /\ resp[1].op = "ToggleFollow"
    /\ resp[1].err = Nil
    /\ resp[1].uid = a
    /\ resp[1].followeeID = b

\* what a listing of the users in edges must have returned
C35_Listed(edges, first, after) ==
    listed'.err = Nil
       => /\ Range(listed'.rows) \subseteq edges
          /\ (after = <<>> /\ Cardinality(edges) <= normalizePageSize(first))
                => Range(listed'.rows) = edges

\* C35: Followers(u) returns only users with a follow edge to u and
\* Followees(u) only users u has an edge to; without a cursor and within the
\* page size it is exactly that set, so after A toggled to following B the
\* listings hold A among the followers of B and B among the followees of A,
\* and after toggling back they do not
C35_Step ==
    \A uid \in {NoAuth}, un \in EdgeListed, first \in {0, 1},
       after \in AfterInputs :
      (pc' = pc /\ listed'.name = TrimSpace(un) /\ listed'.size = first) =>
        /\ Followers(uid, un, first, after)
              => /\ C35_Listed(EdgesToNamed(un), first, after)
                 /\ \A a \in DOMAIN users :
                       (/\ LastToggled(a, UserIDByUsername(TrimSpace(un)))
                        /\ first = 0
                        /\ after = <<>>
                        /\ listed'.err = Nil)
                          => (a \in Range(listed'.rows) <=> resp[1].Following)
        /\ Followees(uid, un, first, after)
              => /\ C35_Listed(EdgesFromNamed(un), first, after)
                 /\ \A b \in DOMAIN users :
                       (/\ LastToggled(UserIDByUsername(TrimSpace(un)), b)
                        /\ first = 0
                        /\ after = <<>>
                        /\ listed'.err = Nil)
                          => (b \in Range(listed'.rows) <=> resp[1].Following)

C35_EdgeListings == [][C35_Step]_vars

\* user 2 toggled to following user 1 and back, and Followers of user 1,
\* asked for without a cursor, does not hold user 2 but holds user 3
C35_Witness ==
    /\ LastToggled(2, 1)
    /\ ~resp[1].Following
    /\ last.streak = 2
    /\ listed.op = "Followers"
    /\ listed.err = Nil
    /\ listed.name = mladen
    /\ listed.size = 0
    /\ listed.rows = <<3>>

\* ------------------------------------------------------------ one response
\* C36: for a create-post or create-comment request without authentication
\* the HTTP handler writes exactly one response, with status 401, and no
\* second error response after it
C36_OneResponse ==
    \A p \in Procs :
        (/\ resp[p].op \in {"CreatePost", "CreateComment"}
         /\ resp[p].err = ErrUnauthenticated)
           => /\ Len(resp[p].http) = 1
              /\ resp[p].http[1].status = StatusUnauthorized
====
